---- MODULE Spec2Model ----
(***************************************************************************)
(* Alert-processing core of AI_SOC: the sliding-window rate limiter        *)
(* (services/common/rate_limit.py), the retrying service client            *)
(* (services/common/integration.py) and the alert pipeline                 *)
(* (services/common/pipeline.py).                                          *)
(*                                                                         *)
(* Time is counted in whole ticks.  Each component has its own variables   *)
(* and its own specification; a specification leaves the variables of the  *)
(* other components at their initial values.                               *)
(***************************************************************************)
EXTENDS Integers, Sequences, FiniteSets, TLC

VARIABLES
    \* ---- SlidingWindowRateLimiter ----
    requests_per_window,  \* self.requests_per_window
    window_seconds,       \* self.window_seconds
    cleanup_interval,     \* self.cleanup_interval
    request_log,          \* self.request_log: client_id -> deque of timestamps
    last_cleanup,         \* self.last_cleanup
    now,                  \* time.time()
    calls,                \* per client: its is_allowed and reset calls, with results
    last_remaining,       \* what get_remaining_requests has just returned, and to whom
    \* ---- async_retry wrapper around ServiceClient.get/post/put ----
    rt_pc,                \* position of the wrapper: idle, call, sleep, returned, raised
    rt_method,            \* the wrapped method: get, post or put
    attempt,              \* the loop variable attempt
    current_delay,        \* current_delay
    last_exception,       \* last_exception
    rt_attempts,          \* outcome of every attempt made by the current call
    rt_sleeps,            \* every delay slept by the current call
    rt_requests,          \* number of calls made so far
    \* ---- AlertPipeline ----
    enable_ml,            \* self.enable_ml
    enable_rag,           \* self.enable_rag
    thehive_threshold,    \* self.thehive_threshold
    subscribers,          \* event_bus.subscribers["alert_processed"]
    collab,               \* what each collaborator may answer in this behaviour
    alerts,               \* the alerts handed to batch_process
    runs,                 \* per alert: the task running process_alert for it
    metrics,              \* self.metrics
    sem,                  \* the asyncio.Semaphore of batch_process
    events,               \* the events handed to event_bus.publish
    batch,                \* batch_process itself: position and returned list
    \* ---- RateLimitMiddleware over its default limiter ----
    mw_requests,          \* number of requests dispatched so far
    mw_pending,           \* requests handed to call_next whose handler is running
    mw_responses,         \* what dispatch returned (or raised) for each request
    \* ---- EventBus ----
    eb_subscribers,       \* self.subscribers: event type -> list of callbacks
    eb_pub,               \* the publish call in progress, or the last one made
    eb_publishes,         \* number of publish calls made so far
    \* ---- FallbackHandler ----
    fb_alert,             \* the alert a fallback is called with
    fb_result,            \* what the fallback returned or raised, once called
    \* ---- PipelineManager ----
    pm,                   \* self.running, the stop() call in progress, alerts enqueued
    pm_workers,           \* the worker tasks created so far; worker_task is the last
    pm_queue              \* self.pipeline.processing_queue: alerts waiting, by index

rlVars == <<requests_per_window, window_seconds, cleanup_interval,
            request_log, last_cleanup, now, calls, last_remaining>>
rtVars == <<rt_pc, rt_method, attempt, current_delay, last_exception,
            rt_attempts, rt_sleeps, rt_requests>>
plVars == <<enable_ml, enable_rag, thehive_threshold, subscribers, collab,
            alerts, runs, metrics, sem, events, batch>>
mwVars == <<mw_requests, mw_pending, mw_responses>>
ebVars == <<eb_subscribers, eb_pub, eb_publishes>>
fbVars == <<fb_alert, fb_result>>
pmVars == <<pm, pm_workers, pm_queue>>
vars == <<rlVars, rtVars, plVars, mwVars, ebVars, fbVars, pmVars>>

\* What the actions of one component leave alone.
notRL == <<rtVars, plVars, mwVars, ebVars, fbVars, pmVars>>
notRT == <<rlVars, plVars, mwVars, ebVars, fbVars, pmVars>>
notPL == <<rlVars, rtVars, mwVars, ebVars, fbVars, pmVars>>
notMW == <<rtVars, plVars, ebVars, fbVars, pmVars>>
notEB == <<rlVars, rtVars, plVars, mwVars, fbVars, pmVars>>
notFB == <<rlVars, rtVars, plVars, mwVars, ebVars, pmVars>>
notPM == <<rlVars, rtVars, mwVars, ebVars, fbVars>>

Max(a, b) == IF a >= b THEN a ELSE b

(***************************************************************************)
(* SlidingWindowRateLimiter                                                *)
(***************************************************************************)

\* Bounds of the rate-limiter model.
MaxLimit == 2
MaxWindow == 2
MaxTime == 3
MaxCalls == 4

Clients == {"A", "B"}

\* Number of calls recorded so far, over all clients.
RECURSIVE TotalCalls(_)
TotalCalls(S) ==
    IF S = {} THEN 0
    ELSE LET c == CHOOSE x \in S : TRUE IN Len(calls[c]) + TotalCalls(S \ {c})

\* dict operations on request_log
DictSet(d, k, v) == [x \in (DOMAIN d) \cup {k} |-> IF x = k THEN v ELSE d[x]]
DictDel(d, k) == [x \in (DOMAIN d) \ {k} |-> d[x]]
EmptyDict == [x \in {} |-> <<>>]

\* A pruning loop that drops one timestamp too many at the boundary.
RECURSIVE PruneInclusive(_, _)
PruneInclusive(timestamps, cutoff_time) ==
    IF Len(timestamps) > 0 /\ timestamps[1] <= cutoff_time
    THEN PruneInclusive(Tail(timestamps), cutoff_time)
    ELSE timestamps

\* while timestamps and timestamps[0] < cutoff_time: timestamps.popleft()
RECURSIVE Prune(_, _)
Prune(timestamps, cutoff_time) ==
    IF Len(timestamps) > 0 /\ timestamps[1] < cutoff_time
    THEN Prune(Tail(timestamps), cutoff_time)
    ELSE timestamps

\* A sweep that also drops the timestamps that are exactly window_seconds old.
CleanupOldEntriesInclusive(log, lc, current_time) ==
    IF current_time - lc < cleanup_interval
    THEN [log |-> log, last_cleanup |-> lc]
    ELSE LET cutoff_time == current_time - window_seconds
             kept == {c \in DOMAIN log : Len(PruneInclusive(log[c], cutoff_time)) > 0}
         IN  [log |-> [c \in kept |-> PruneInclusive(log[c], cutoff_time)],
              last_cleanup |-> current_time]

\* A sweep that prunes the deques and keeps the emptied entries.
CleanupOldEntriesKeepEmpty(log, lc, current_time) ==
    IF current_time - lc < cleanup_interval
    THEN [log |-> log, last_cleanup |-> lc]
    ELSE LET cutoff_time == current_time - window_seconds
         IN  [log |-> [c \in DOMAIN log |-> Prune(log[c], cutoff_time)],
              last_cleanup |-> current_time]

\* _cleanup_old_entries: the log and last_cleanup after the sweep at current_time.
CleanupOldEntries(log, lc, current_time) ==
    IF current_time - lc < cleanup_interval
    THEN [log |-> log, last_cleanup |-> lc]
    ELSE LET cutoff_time == current_time - window_seconds
             kept == {c \in DOMAIN log : Len(Prune(log[c], cutoff_time)) > 0}
         IN  [log |-> [c \in kept |-> Prune(log[c], cutoff_time)],
              last_cleanup |-> current_time]

\* None in "return True, None", written -1: max(0, ...) keeps the retry_after of
\* a rejected call from being negative.
NoRetryAfter == -1

\* is_allowed without a lower bound on retry_after.
RetryAfterUnclamped(oldest_timestamp, current_time) ==
    oldest_timestamp + window_seconds + 1 - current_time

\* retry_after = oldest_timestamp + window_seconds - current_time; max(0, retry_after)
RetryAfter(oldest_timestamp, current_time) ==
    Max(0, oldest_timestamp + window_seconds - current_time)

\* A rejection that records the rejected attempt.
RejectedLogAppends(timestamps, current_time) == Append(timestamps, current_time)

\* The caller's deque when is_allowed returns False: nothing is appended.
RejectedLog(timestamps, current_time) == timestamps

\* is_allowed(client_id) at current_time on a limiter whose request_log is log
\* and whose last_cleanup is lc: the new log, the new last_cleanup and the
\* returned pair.  A limit of 0 makes timestamps[0] fail on the empty deque;
\* the limit is at least 1 here.
IsAllowedOn(log, lc, client_id, current_time) ==
    LET cutoff_time == current_time - window_seconds
        swept == CleanupOldEntries(log, lc, current_time)
        before == IF client_id \in DOMAIN swept.log THEN swept.log[client_id] ELSE <<>>
        timestamps == Prune(before, cutoff_time)
    IN  IF Len(timestamps) >= requests_per_window
        THEN [log |-> DictSet(swept.log, client_id,
                              RejectedLog(timestamps, current_time)),
              last_cleanup |-> swept.last_cleanup,
              allowed |-> FALSE,
              retry_after |-> RetryAfter(timestamps[1], current_time)]
        ELSE [log |-> DictSet(swept.log, client_id, Append(timestamps, current_time)),
              last_cleanup |-> swept.last_cleanup,
              allowed |-> TRUE,
              retry_after |-> NoRetryAfter]

\* is_allowed(client_id) on the limiter as it is now.
IsAllowedResult(client_id) == IsAllowedOn(request_log, last_cleanup, client_id, now)

\* The clock advances between requests.
Tick ==
    /\ now < MaxTime
    /\ now' = now + 1
    /\ last_remaining' = {}
    /\ UNCHANGED <<requests_per_window, window_seconds, cleanup_interval,
                   request_log, last_cleanup, calls>>
    /\ UNCHANGED notRL

IsAllowed(client_id) ==
    /\ TotalCalls(Clients) < MaxCalls
    /\ LET r == IsAllowedResult(client_id)
       IN  /\ request_log' = r.log
           /\ last_cleanup' = r.last_cleanup
           /\ calls' = [calls EXCEPT ![client_id] =
                           Append(@, [op |-> "is_allowed", time |-> now,
                                      allowed |-> r.allowed,
                                      retry_after |-> r.retry_after])]
    /\ last_remaining' = {}
    /\ UNCHANGED <<requests_per_window, window_seconds, cleanup_interval, now>>
    /\ UNCHANGED notRL

\* reset_client(client_id)
ResetClient(client_id) ==
    /\ TotalCalls(Clients) < MaxCalls
    /\ client_id \in DOMAIN request_log
    /\ request_log' = DictDel(request_log, client_id)
    /\ calls' = [calls EXCEPT ![client_id] =
                    Append(@, [op |-> "reset", time |-> now,
                               allowed |-> FALSE, retry_after |-> NoRetryAfter])]
    /\ last_remaining' = {}
    /\ UNCHANGED <<requests_per_window, window_seconds, cleanup_interval,
                   last_cleanup, now>>
    /\ UNCHANGED notRL

\* A counter that uses the pruning rule of is_allowed.
ValidCountRetained(timestamps, cutoff_time) ==
    Cardinality({p \in DOMAIN timestamps : timestamps[p] >= cutoff_time})

\* valid_count = sum(1 for ts in timestamps if ts > cutoff_time)
ValidCount(timestamps, cutoff_time) ==
    Cardinality({p \in DOMAIN timestamps : timestamps[p] > cutoff_time})

\* get_remaining_requests(client_id): request_log.get(client_id, deque()) reads
\* the log without creating an entry.
GetRemainingRequests(client_id) ==
    LET current_time == now
        cutoff_time == current_time - window_seconds
        timestamps == IF client_id \in DOMAIN request_log
                      THEN request_log[client_id] ELSE <<>>
    IN  Max(0, requests_per_window - ValidCount(timestamps, cutoff_time))

\* A caller asks for the remaining budget of client_id.
GetRemaining(client_id) ==
    /\ last_remaining' = {[client |-> client_id,
                           remaining |-> GetRemainingRequests(client_id)]}
    /\ last_remaining' # last_remaining
    /\ UNCHANGED <<requests_per_window, window_seconds, cleanup_interval,
                   request_log, last_cleanup, now, calls>>
    /\ UNCHANGED notRL

(***************************************************************************)
(* RateLimitMiddleware, built without endpoint_limits: every path is served *)
(* by default_limiter, whose state is the limiter state above               *)
(***************************************************************************)

\* Bound: requests dispatched in one behaviour.
MaxHttp == 2

ExemptPaths == {"/health", "/metrics", "/docs", "/openapi.json"}
Paths == ExemptPaths \cup {"/analyze"}

\* A middleware that exempts the health path only.
IsExemptHealthOnly(path) == path = "/health"

\* if request.url.path in ["/health", "/metrics", "/docs", "/openapi.json"]
IsExempt(path) == path \in ExemptPaths

NoHeaders == [h \in {} |-> 0]

\* The headers of the 429 response.
RejectedHeaders(retry_after) ==
    [h \in {"Retry-After", "X-RateLimit-Limit", "X-RateLimit-Remaining",
            "X-RateLimit-Reset"} |->
        CASE h = "Retry-After" -> retry_after
          [] h = "X-RateLimit-Limit" -> requests_per_window
          [] h = "X-RateLimit-Remaining" -> 0
          [] h = "X-RateLimit-Reset" -> now + retry_after]

\* The headers added to the handler's response.
AdmittedHeaders(client_id) ==
    [h \in {"X-RateLimit-Limit", "X-RateLimit-Remaining", "X-RateLimit-Reset"} |->
        CASE h = "X-RateLimit-Limit" -> requests_per_window
          [] h = "X-RateLimit-Remaining" -> GetRemainingRequests(client_id)
          [] h = "X-RateLimit-Reset" -> now + window_seconds]

\* The timestamps of client_id that is_allowed would retain now.
InWindowNow(client_id) ==
    ValidCountRetained(IF client_id \in DOMAIN request_log
                       THEN request_log[client_id] ELSE <<>>,
                       now - window_seconds)

\* dispatch(request, call_next) up to its first await or its return: the
\* exemption test, the choice of limiter, is_allowed, and the 429 response.
Dispatch(client_id, path) ==
    /\ mw_requests < MaxHttp
    /\ mw_requests' = mw_requests + 1
    /\ LET req == [id |-> mw_requests + 1, client |-> client_id, path |-> path,
                   limited |-> ~IsExempt(path)]
           r == IsAllowedResult(client_id)
       IN  IF IsExempt(path)
           THEN /\ mw_pending' = mw_pending \cup {req}
                /\ UNCHANGED <<request_log, last_cleanup, mw_responses>>
           ELSE /\ request_log' = r.log
                /\ last_cleanup' = r.last_cleanup
                /\ IF r.allowed
                   THEN /\ mw_pending' = mw_pending \cup {req}
                        /\ UNCHANGED mw_responses
                   ELSE /\ mw_responses' = mw_responses \cup
                              {[req |-> req, kind |-> "rejected", status |-> 429,
                                handler |-> FALSE,
                                headers |-> RejectedHeaders(r.retry_after),
                                in_window |-> requests_per_window]}
                        /\ UNCHANGED mw_pending
    /\ UNCHANGED <<requests_per_window, window_seconds, cleanup_interval, now,
                   calls, last_remaining>>
    /\ UNCHANGED notMW

\* call_next(request) returns the handler's response, or raises: dispatch adds
\* the rate-limit headers to the response of a limited request and returns it;
\* an exception of the handler leaves dispatch as it is.
HandlerDone(req, outcome) ==
    /\ req \in mw_pending
    /\ mw_pending' = mw_pending \ {req}
    /\ mw_responses' = mw_responses \cup
          {[req |-> req,
            kind |-> IF outcome = "exception" THEN "raised" ELSE "forwarded",
            status |-> IF outcome = "exception" THEN 500 ELSE 200,
            handler |-> TRUE,
            headers |-> IF outcome = "response" /\ req.limited
                        THEN AdmittedHeaders(req.client) ELSE NoHeaders,
            in_window |-> InWindowNow(req.client)]}
    /\ UNCHANGED <<mw_requests, rlVars>>
    /\ UNCHANGED notMW

(***************************************************************************)
(* async_retry and ServiceClient.get/post/put                              *)
(***************************************************************************)

\* @async_retry(max_attempts=3, delay=1.0, backoff=2.0) on get, post and put
max_attempts == 3
delay == 1
backoff == 2

\* Bound: calls made through one client in a behaviour.
MaxRequests == 2

Methods == {"get", "post", "put"}

\* What one attempt (self.client.<method> then response.raise_for_status()) can
\* end in: a 2xx response, or an exception of one of these kinds.
Failures == {"timeout", "connect_error", "status_4xx", "status_5xx"}
Outcomes == {"response_2xx"} \cup Failures

\* except exceptions as e, with exceptions = (Exception,): every failure of an
\* attempt is caught, HTTPStatusError for a 4xx response included.
Retryable(e) == e \in Failures

\* A loop that sleeps after the last attempt too.
SleepsAfterAlways(n) == TRUE

\* if attempt < max_attempts: await asyncio.sleep(current_delay)
SleepsAfter(n) == n < max_attempts

\* A caller invokes get, post or put: last_exception = None, current_delay = delay,
\* and the loop starts with attempt = 1.
RtCall(m) ==
    /\ rt_pc \in {"idle", "returned", "raised"}
    /\ rt_requests < MaxRequests
    /\ rt_requests' = rt_requests + 1
    /\ rt_pc' = "call"
    /\ rt_method' = m
    /\ attempt' = 1
    /\ current_delay' = delay
    /\ last_exception' = "None"
    /\ rt_attempts' = <<>>
    /\ rt_sleeps' = <<>>
    /\ UNCHANGED notRT

\* One attempt completes with outcome o: return await func(...), or the except
\* clause down to the sleep or to the end of the loop and raise last_exception.
RtAttempt(o) ==
    /\ rt_pc = "call"
    /\ rt_attempts' = Append(rt_attempts, o)
    /\ IF o = "response_2xx"
       THEN /\ rt_pc' = "returned"
            /\ UNCHANGED <<last_exception, attempt>>
       ELSE IF ~Retryable(o)
       THEN /\ rt_pc' = "raised"
            /\ last_exception' = o
            /\ UNCHANGED attempt
       ELSE /\ last_exception' = o
            /\ IF SleepsAfter(attempt)
               THEN rt_pc' = "sleep" /\ UNCHANGED attempt
               ELSE IF attempt < max_attempts
               THEN rt_pc' = "call" /\ attempt' = attempt + 1
               ELSE rt_pc' = "raised" /\ UNCHANGED attempt
    /\ UNCHANGED <<rt_method, current_delay, rt_sleeps, rt_requests>>
    /\ UNCHANGED notRT

\* asyncio.sleep(current_delay) returns: current_delay *= backoff, next attempt.
RtWake ==
    /\ rt_pc = "sleep"
    /\ rt_sleeps' = Append(rt_sleeps, current_delay)
    /\ current_delay' = current_delay * backoff
    /\ IF attempt < max_attempts
       THEN rt_pc' = "call" /\ attempt' = attempt + 1
       ELSE rt_pc' = "raised" /\ UNCHANGED attempt
    /\ UNCHANGED <<rt_method, last_exception, rt_attempts, rt_requests>>
    /\ UNCHANGED notRT

(***************************************************************************)
(* EventBus                                                                *)
(***************************************************************************)

\* Bounds: subscriptions and publish calls made in one behaviour.
MaxSubs == 3
MaxPublishes == 2

EventTypes == {"alert_processed", "alert_failed"}
Callbacks == {"h1", "h2", "h3"}

\* asyncio.iscoroutinefunction(callback): h2 is a coroutine function.
IsCoroutine(callback) == callback = "h2"

RECURSIVE TotalSubs(_)
TotalSubs(S) ==
    IF S = {} THEN 0
    ELSE LET t == CHOOSE x \in S : TRUE
         IN  Len(eb_subscribers[t]) + TotalSubs(S \ {t})

NoPublish ==
    [pc |-> "idle", type |-> "None", idx |-> 0, registered |-> 0, invoked |-> <<>>]

\* subscribe(event_type, callback)
Subscribe(event_type, callback) ==
    /\ TotalSubs(DOMAIN eb_subscribers) < MaxSubs
    /\ eb_subscribers' =
          IF event_type \notin DOMAIN eb_subscribers
          THEN DictSet(eb_subscribers, event_type, <<callback>>)
          ELSE DictSet(eb_subscribers, event_type,
                       Append(eb_subscribers[event_type], callback))
    /\ UNCHANGED <<eb_pub, eb_publishes>>
    /\ UNCHANGED notEB

\* A publish that lets the exception of a callback through.
CaughtNever(outcome) == FALSE

\* except Exception as e: logger.error(...)
Caught(outcome) == outcome = "raise"

\* The loop "for callback in self.subscribers[event_type]" goes on to the next
\* callback; the list is read again at each step, so that it ends when the
\* index has passed the callbacks registered by then.
LoopOn(pub) ==
    IF pub.idx + 1 > Len(eb_subscribers[pub.type])
    THEN [pub EXCEPT !.pc = "returned", !.idx = @ + 1]
    ELSE [pub EXCEPT !.pc = "loop", !.idx = @ + 1]

\* The callback at the loop's position has ended with outcome.
AfterCallback(pub, outcome) ==
    LET p == [pub EXCEPT !.invoked =
                 Append(@, [callback |-> eb_subscribers[pub.type][pub.idx],
                            outcome |-> outcome])]
    IN  IF outcome = "ok" \/ Caught(outcome) THEN LoopOn(p)
        ELSE [p EXCEPT !.pc = "raised"]

\* publish(event_type, data) is called: with no callback of that type it
\* returns at once, otherwise the loop starts.
PublishCall(event_type) ==
    /\ eb_pub.pc \in {"idle", "returned", "raised"}
    /\ eb_publishes < MaxPublishes
    /\ eb_publishes' = eb_publishes + 1
    /\ eb_pub' =
          IF event_type \in DOMAIN eb_subscribers
          THEN [pc |-> "loop", type |-> event_type, idx |-> 1,
                registered |-> Len(eb_subscribers[event_type]), invoked |-> <<>>]
          ELSE [pc |-> "returned", type |-> event_type, idx |-> 0,
                registered |-> 0, invoked |-> <<>>]
    /\ UNCHANGED eb_subscribers
    /\ UNCHANGED notEB

\* One turn of the loop: a plain callback is called and ends with outcome; a
\* coroutine callback is called and awaited.
CallbackCalled(outcome) ==
    /\ eb_pub.pc = "loop"
    /\ eb_pub' = IF IsCoroutine(eb_subscribers[eb_pub.type][eb_pub.idx])
                 THEN [eb_pub EXCEPT !.pc = "await"]
                 ELSE AfterCallback(eb_pub, outcome)
    /\ UNCHANGED <<eb_subscribers, eb_publishes>>
    /\ UNCHANGED notEB

\* The awaited coroutine callback ends with outcome.
CallbackAwaited(outcome) ==
    /\ eb_pub.pc = "await"
    /\ eb_pub' = AfterCallback(eb_pub, outcome)
    /\ UNCHANGED <<eb_subscribers, eb_publishes>>
    /\ UNCHANGED notEB

(***************************************************************************)
(* AlertPipeline                                                           *)
(***************************************************************************)

\* asyncio.Semaphore(10) in batch_process
SemWidth == 10

\* threshold_order in _should_create_case
threshold_order == <<"info", "low", "medium", "high", "critical">>

InList(seq, x) == \E i \in 1..Len(seq) : seq[i] = x
\* list.index(x); raises ValueError when x is not in the list
Index(seq, x) == CHOOSE i \in 1..Len(seq) : seq[i] = x

\* Alerts.  mapping = FALSE is a value without .get (None, a string, a list):
\* nothing checks that an alert is a dict.  has_features: "features" in alert.
\* keyword: which of FallbackHandler.ml_fallback's keywords str(alert) contains.
AlertShapes ==
    {[mapping |-> TRUE, has_features |-> FALSE, keyword |-> "none"],
     [mapping |-> TRUE, has_features |-> TRUE, keyword |-> "none"],
     [mapping |-> TRUE, has_features |-> TRUE, keyword |-> "scan"],
     [mapping |-> TRUE, has_features |-> TRUE, keyword |-> "exploit"],
     [mapping |-> FALSE, has_features |-> FALSE, keyword |-> "none"]}

\* PipelineMetrics.__init__
NewMetrics ==
    [total_processed |-> 0, total_failed |-> 0,
     stage_times |-> [k \in {"ml_detection", "triage", "enrichment",
                             "case_creation", "response"} |-> 0],
     severity_counts |-> [k \in {"info", "low", "medium", "high", "critical",
                                 "None", "unknown"} |-> 0]]

\* A task created by gather for alerts[i], before its first step.
NewRun ==
    [pc |-> "new", alert_id |-> "None", stages |-> <<>>, actions |-> <<>>,
     final_status |-> "None", error |-> "None", exception |-> "None",
     triage_input |-> "None", trace |-> <<>>]

\* PipelineMetrics.record_stage_time: one more sample for the stage.
RecordStageTime(w, stage) ==
    [w EXCEPT !.m.stage_times[stage] = @ + 1]

\* PipelineMetrics.record_severity
RecordSeverity(w, severity) ==
    [w EXCEPT !.m.severity_counts[severity] = @ + 1]

\* pipeline_result["stages"][key] = out
Rec(w, key, stage, out) ==
    [w EXCEPT !.run.stages = Append(@, [key |-> key, out |-> out]),
              !.run.trace = Append(@, [ev |-> "rec", stage |-> stage])]

\* pipeline_result["final_status"] = status
Status(w, status) ==
    [w EXCEPT !.run.final_status = status,
              !.run.trace = Append(@, [ev |-> "status", stage |-> status])]

\* pipeline_result["actions"].append(action)
Action(w, action) == [w EXCEPT !.run.actions = Append(@, action)]

\* The run suspends in the call of a stage's collaborator.
Await(w, pc, stage) ==
    [w EXCEPT !.run.pc = pc,
              !.run.trace = Append(@, [ev |-> "call", stage |-> stage])]

StageOut(run, key) ==
    LET i == CHOOSE i \in 1..Len(run.stages) : run.stages[i].key = key
    IN  run.stages[i].out
HasStage(run, key) == \E i \in 1..Len(run.stages) : run.stages[i].key = key
StageKeys(run) == [i \in 1..Len(run.stages) |-> run.stages[i].key]

\* self.metrics.total_failed += 1
CountFailed(w) ==
    [w EXCEPT !.m.total_failed = @ + 1,
              !.run.trace = Append(@, [ev |-> "count", stage |-> "failed"])]

\* self.metrics.total_processed += 1
CountProcessed(w) ==
    [w EXCEPT !.m.total_processed = @ + 1,
              !.run.trace = Append(@, [ev |-> "count", stage |-> "processed"])]

\* except Exception as e: in process_alert
Fail(w, e) ==
    LET w1 == Status(w, "failed")
        w2 == [w1 EXCEPT !.run.error = e]
        w3 == CountFailed(w2)
    IN  [w3 EXCEPT !.run.pc = "returned"]

\* await event_bus.publish("alert_processed", pipeline_result): the event is
\* handed to the bus; the run suspends when a subscriber is a coroutine.
Publish(w) ==
    LET w1 == [w EXCEPT !.ev = @ \cup {[type |-> "alert_processed",
                                         alert_id |-> w.run.alert_id,
                                         final_status |-> w.run.final_status]},
                        !.run.trace = Append(@, [ev |-> "publish", stage |-> "completed"])]
    IN  IF InList(subscribers, "async")
        THEN [w1 EXCEPT !.run.pc = "publish"]
        ELSE [w1 EXCEPT !.run.pc = "returned"]

\* Mark as completed, count, publish.
Complete(w) == Publish(CountProcessed(Status(w, "completed")))

\* _response_stage
ResponseStage(w, severity) ==
    LET actions_triggered ==
            IF severity = "critical"
            THEN <<"isolate_host", "block_ip", "notify_security_team">>
            ELSE IF severity = "high" THEN <<"monitor_host", "alert_analyst">>
            ELSE <<>>
        w1 == RecordStageTime(w, "response")
    IN  Rec(w1, "response", "response_action", [actions |-> actions_triggered])

\* A response stage that runs for critical alerts only.
NeedsResponseCriticalOnly(severity) == severity = "critical"

\* if severity in ["critical", "high"]
NeedsResponse(severity) == severity \in {"critical", "high"}

\* Stage 5 and the end of the run.
ResponseDecision(w) ==
    LET severity == StageOut(w.run, "triage").severity
    IN  IF NeedsResponse(severity)
        THEN Complete(Status(Action(ResponseStage(w, severity), "response_triggered"),
                             "response_action"))
        ELSE Complete(w)

\* A run that reports a case only when the case was created.
AfterCaseOnSuccess(w, case_result) ==
    LET w1 == Rec(w, "case_creation", "case_creation", case_result)
        w2 == IF "error" \in DOMAIN case_result THEN w1 ELSE Action(w1, "case_created")
    IN  ResponseDecision(Status(w2, "case_creation"))

\* _case_creation_stage returned case_result
AfterCase(w, case_result) ==
    ResponseDecision(Status(Action(Rec(w, "case_creation", "case_creation", case_result),
                                   "case_created"),
                            "case_creation"))

\* A threshold comparison that leaves out the threshold severity itself.
ShouldCreateCaseStrict(severity) ==
    Index(threshold_order, severity) > Index(threshold_order, thehive_threshold)

\* _should_create_case, for a severity and a threshold in threshold_order
ShouldCreateCase(severity) ==
    Index(threshold_order, severity) >= Index(threshold_order, thehive_threshold)

\* A decision that skips the case for a severity outside threshold_order.
CaseDecisionLenient(w) ==
    LET severity == StageOut(w.run, "triage").severity
    IN  IF InList(threshold_order, severity) /\ ShouldCreateCase(severity)
        THEN Await(w, "case_call", "case_creation")
        ELSE ResponseDecision(w)

\* Stage 4: _should_create_case(triage_result); index() raises ValueError for a
\* severity (or threshold) outside threshold_order.
CaseDecision(w) ==
    LET severity == StageOut(w.run, "triage").severity
    IN  IF ~InList(threshold_order, thehive_threshold) \/ ~InList(threshold_order, severity)
        THEN Fail(w, "ValueError")
        ELSE IF ShouldCreateCase(severity)
        THEN Await(w, "case_call", "case_creation")
        ELSE ResponseDecision(w)

\* _enrichment_stage returned rag_result
AfterEnrichment(w, rag_result) ==
    CaseDecision(Status(Rec(w, "enrichment", "context_enrichment", rag_result),
                        "context_enrichment"))

\* _triage_stage returned triage_result: record it, record the severity, Stage 3.
AfterTriage(w, triage_result) ==
    LET w1 == Status(Rec(w, "triage", "triage_analysis", triage_result), "triage_analysis")
        w2 == RecordSeverity(w1, triage_result.severity)
    IN  IF enable_rag
        THEN Await(w2, "rag_call", "context_enrichment")
        ELSE CaseDecision(w2)

\* An enriched alert that carries the whole detection result.
EnrichedAlertWithMarker(alert, ml_result) ==
    [alert_id |-> alert.alert_id,
     ml_prediction |-> IF "prediction" \in DOMAIN ml_result
                       THEN ml_result.prediction ELSE "None",
     ml_confidence |-> IF "confidence" \in DOMAIN ml_result
                       THEN ml_result.confidence ELSE "None",
     fallback |-> "fallback" \in DOMAIN ml_result]

\* enriched_alert = {**alert, "ml_prediction": ml_result.get("prediction"),
\*                   "ml_confidence": ml_result.get("confidence")}
EnrichedAlert(alert, ml_result) ==
    [alert_id |-> alert.alert_id,
     ml_prediction |-> IF "prediction" \in DOMAIN ml_result
                       THEN ml_result.prediction ELSE "None",
     ml_confidence |-> IF "confidence" \in DOMAIN ml_result
                       THEN ml_result.confidence ELSE "None"]

\* A triage stage entered before the detection result is recorded.
AfterMlLateRecord(w, alert, ml_result) ==
    LET w1 == [w EXCEPT !.run.triage_input = EnrichedAlert(alert, ml_result)]
        w2 == Await(w1, "triage_call", "triage_analysis")
    IN  Status(Rec(w2, "ml_detection", "ml_detection", ml_result), "ml_detection")

\* _ml_detection_stage returned ml_result: record it, then _triage_stage up to
\* the call of the triage collaborator.
AfterMl(w, alert, ml_result) ==
    LET w1 == Status(Rec(w, "ml_detection", "ml_detection", ml_result), "ml_detection")
        w2 == [w1 EXCEPT !.run.triage_input = EnrichedAlert(alert, ml_result)]
    IN  Await(w2, "triage_call", "triage_analysis")

\* The keywords ml_fallback looks for in str(alert).lower(); an alert's keyword
\* is the strongest one its text contains, or "none".
CriticalWords == {"ransomware", "cryptolocker", "exploit"}
HighWords == {"brute", "force", "scan"}

\* FallbackHandler.ml_fallback; confidence 0.6 is written 60
MlFallback(alert) ==
    LET severity == IF alert.keyword \in CriticalWords THEN "critical"
                    ELSE IF alert.keyword \in HighWords THEN "high" ELSE "medium"
    IN  [prediction |-> IF severity \in {"critical", "high"} THEN "ATTACK" ELSE "BENIGN",
         confidence |-> 60, fallback |-> TRUE, severity |-> severity]

\* FallbackHandler.llm_fallback; confidence 0.5 is written 50
LlmFallback ==
    [severity |-> "medium", confidence |-> 50,
     analysis |-> "Automated analysis unavailable. Manual review recommended.",
     recommendations |-> <<"Review alert manually", "Check system logs">>,
     fallback |-> TRUE]

\* What _ml_detection_stage returns when the detection collaborator answers.
MlResult(reply) ==
    [prediction |-> reply, confidence |-> 95, model |-> "random_forest",
     duration_ms |-> 1]

\* What _triage_stage returns when the triage collaborator answers.
TriageResult(reply) ==
    [severity |-> reply, confidence |-> 90, iocs |-> <<>>, recommendations |-> <<>>,
     mitre_tactics |-> <<>>, duration_ms |-> 1]

\* The alert of a specification that calls no fallback.
NoAlert ==
    [mapping |-> TRUE, has_features |-> FALSE, keyword |-> "none", printable |-> TRUE]

\* The alerts a fallback can be called with: of any type, with any of the
\* keywords in its text, and with a str() that succeeds or raises.
FallbackAlerts ==
    [mapping : BOOLEAN, has_features : BOOLEAN,
     keyword : {"none"} \cup CriticalWords \cup HighWords, printable : BOOLEAN]

\* await FallbackHandler.ml_fallback(alert): str(alert) is evaluated outside
\* any try block.
MlFallbackCall ==
    /\ fb_result = {}
    /\ fb_result' = IF fb_alert.printable
                    THEN {[fallback |-> "ml", pc |-> "returned", out |-> MlFallback(fb_alert)]}
                    ELSE {[fallback |-> "ml", pc |-> "raised", out |-> [error |-> "str"]]}
    /\ UNCHANGED fb_alert
    /\ UNCHANGED notFB

\* await FallbackHandler.llm_fallback(alert): the alert is not looked at.
LlmFallbackCall ==
    /\ fb_result = {}
    /\ fb_result' = {[fallback |-> "llm", pc |-> "returned", out |-> LlmFallback]}
    /\ UNCHANGED fb_alert
    /\ UNCHANGED notFB

\* _ml_detection_stage up to the call of the detection collaborator
MlDetectionStage(w, alert) ==
    IF ~alert.has_features \/ ~enable_ml
    THEN AfterMl(w, alert, [skipped |-> TRUE, reason |-> "no_features_or_disabled"])
    ELSE Await(w, "ml_call", "ml_detection")

\* process_alert from its first line to its first suspension.  alert.get("id")
\* comes before the try block: a value without .get raises AttributeError.
ProcessAlert(w, alert) ==
    IF ~alert.mapping
    THEN [w EXCEPT !.run.pc = "raised", !.run.exception = "AttributeError"]
    ELSE MlDetectionStage(
             Status([w EXCEPT !.run.alert_id = alert.alert_id], "received"), alert)

\* A semaphore that admits every task.
SemFreeAlways(s) == TRUE

\* Semaphore.locked() is false
SemFree(s) == s.value > 0

\* The alert of run i, with its id (its position in the batch).
AlertOf(i) ==
    [mapping |-> alerts[i].mapping, has_features |-> alerts[i].has_features,
     keyword |-> alerts[i].keyword, alert_id |-> i]

\* The world a step of run i works on.
World(i) == [run |-> runs[i], m |-> metrics, ev |-> events]

\* The state after a step of run i that ended in world w: when process_alert
\* has returned or raised, "async with sem" releases the semaphore, handing the
\* slot to the longest-waiting task.
Settle(i, w, s) ==
    LET done == batch.pc = "gather" /\ w.run.pc \in {"returned", "raised"}
        wake == done /\ s.waiters # <<>>
        rs == [runs EXCEPT ![i] = w.run]
    IN  /\ runs' = IF wake THEN [rs EXCEPT ![Head(s.waiters)].pc = "woken"] ELSE rs
        /\ sem' = IF wake THEN [s EXCEPT !.waiters = Tail(@)]
                  ELSE IF done THEN [s EXCEPT !.value = @ + 1]
                  ELSE s
        /\ metrics' = w.m
        /\ events' = w.ev

plConfig == <<enable_ml, enable_rag, thehive_threshold, subscribers, collab, alerts>>

\* A task of gather takes its first step (process_with_limit): it acquires the
\* semaphore, or queues behind it; a task woken by a release goes on from there.
\* The event loop runs the first steps of gather's tasks in the order of alerts.
TaskStart(i) ==
    /\ batch.pc = "gather"
    /\ runs[i].pc \in {"new", "woken"}
    /\ runs[i].pc = "new" => \A j \in 1..(i - 1) : runs[j].pc # "new"
    /\ IF runs[i].pc = "new" /\ ~SemFree(sem)
       THEN /\ runs' = [runs EXCEPT ![i].pc = "sem_wait"]
            /\ sem' = [sem EXCEPT !.waiters = Append(@, i)]
            /\ UNCHANGED <<metrics, events>>
       ELSE Settle(i, ProcessAlert(World(i), AlertOf(i)),
                   IF runs[i].pc = "new" THEN [sem EXCEPT !.value = @ - 1] ELSE sem)
    /\ UNCHANGED <<plConfig, batch>>
    /\ UNCHANGED notPL

\* self.ml_client.predict returns or raises (after ServiceClient's retries).
MlReply(i) ==
    /\ runs[i].pc = "ml_call"
    /\ \E reply \in collab.ml :
          Settle(i,
                 IF reply = "fail"
                 THEN AfterMl(World(i), AlertOf(i), MlFallback(AlertOf(i)))
                 ELSE AfterMl(RecordStageTime(World(i), "ml_detection"), AlertOf(i),
                              MlResult(reply)),
                 sem)
    /\ UNCHANGED <<plConfig, batch>>
    /\ UNCHANGED notPL

\* self.triage_client.analyze_alert returns or raises.  A reply "None" is a
\* response without a severity: triage_result.get("severity") is None.  A reply
\* "unknown" is a response whose severity is a text outside the five levels.
TriageReply(i) ==
    /\ runs[i].pc = "triage_call"
    /\ \E reply \in collab.triage :
          Settle(i,
                 IF reply = "fail"
                 THEN AfterTriage(World(i), LlmFallback)
                 ELSE AfterTriage(RecordStageTime(World(i), "triage"),
                                  TriageResult(reply)),
                 sem)
    /\ UNCHANGED <<plConfig, batch>>
    /\ UNCHANGED notPL

\* An enrichment stage that lets the collaborator's failure through.
EnrichmentErrorFatal(w) == Fail(w, "error")

\* except Exception as e: return {"error": str(e), "context_documents": []}
EnrichmentError(w) ==
    AfterEnrichment(w, [error |-> "error", context_documents |-> <<>>])

\* self.rag_client.retrieve returns or raises.
RagReply(i) ==
    /\ runs[i].pc = "rag_call"
    /\ \E reply \in collab.rag :
          Settle(i,
                 IF reply = "fail"
                 THEN EnrichmentError(World(i))
                 ELSE AfterEnrichment(RecordStageTime(World(i), "enrichment"),
                                      [context_documents |-> <<"doc">>]),
                 sem)
    /\ UNCHANGED <<plConfig, batch>>
    /\ UNCHANGED notPL

\* self.thehive_client.create_case returns or raises.
CaseReply(i) ==
    /\ runs[i].pc = "case_call"
    /\ \E reply \in collab.thehive :
          Settle(i,
                 IF reply = "fail"
                 THEN AfterCase(World(i), [error |-> "error", case_id |-> "None"])
                 ELSE AfterCase(RecordStageTime(World(i), "case_creation"),
                                [case_id |-> "case"]),
                 sem)
    /\ UNCHANGED <<plConfig, batch>>
    /\ UNCHANGED notPL

\* event_bus.publish returns: return pipeline_result.
PublishDone(i) ==
    /\ runs[i].pc = "publish"
    /\ Settle(i, [World(i) EXCEPT !.run.pc = "returned"], sem)
    /\ UNCHANGED <<plConfig, batch>>
    /\ UNCHANGED notPL

\* The entry of processed_results for position i, given gather's result.
\* alerts[i].get("id", "unknown") raises for an alert without .get.
ProcessedResult(i) ==
    IF runs[i].pc = "raised"
    THEN [alert_id |-> i, error |-> runs[i].exception, final_status |-> "failed"]
    ELSE [alert_id |-> runs[i].alert_id, final_status |-> runs[i].final_status,
          error |-> runs[i].error]

\* gather has every result: batch_process builds processed_results and returns.
BatchCollect ==
    /\ batch.pc = "gather"
    /\ \A i \in DOMAIN runs : runs[i].pc \in {"returned", "raised"}
    /\ IF \E i \in DOMAIN runs : runs[i].pc = "raised" /\ ~alerts[i].mapping
       THEN batch' = [pc |-> "raised", results |-> <<>>]
       ELSE batch' = [pc |-> "done",
                      results |-> [i \in DOMAIN runs |-> ProcessedResult(i)]]
    /\ UNCHANGED <<plConfig, runs, metrics, sem, events>>
    /\ UNCHANGED notPL

(***************************************************************************)
(* PipelineManager                                                         *)
(***************************************************************************)

\* Bounds: start() calls, stop() calls and alerts enqueued in one behaviour.
MaxStarts == 2
MaxStops == 2
MaxEnqueued == 2

\* asyncio.Queue(): maxsize 0, the queue has no capacity limit.
QueueMaxsize == 0

\* PipelineManager.__init__; awaited is the task a stop() in progress awaits.
NewManager ==
    [running |-> FALSE, stop |-> "idle", awaited |-> 0, enqueued |-> 0,
     starts |-> 0, stops |-> 0]

\* A worker task is alive until its cancellation or an exception has ended it.
Alive(k) == pm_workers[k].pc \in {"ready", "loop"}

\* A worker task is inside "await self.pipeline.process_alert(alert)".
Busy(k) ==
    /\ pm_workers[k].current # 0
    /\ runs[pm_workers[k].current].pc \notin {"returned", "raised", "cancelled"}

\* A start() that never finds the manager running.
AlreadyRunningNever == FALSE

\* if self.running: return
AlreadyRunning == pm.running

\* start(): nothing when already running, else a new worker task.
PmStart ==
    /\ pm.starts < MaxStarts
    /\ IF AlreadyRunning
       THEN /\ pm' = [pm EXCEPT !.starts = @ + 1]
            /\ UNCHANGED pm_workers
       ELSE /\ pm' = [pm EXCEPT !.starts = @ + 1, !.running = TRUE]
            /\ pm_workers' = Append(pm_workers, [pc |-> "ready", current |-> 0])
    /\ UNCHANGED <<pm_queue, plVars>>
    /\ UNCHANGED notPM

\* Queue.full()
QueueFull == QueueMaxsize > 0 /\ Len(pm_queue) >= QueueMaxsize

\* enqueue_alert(alert): await processing_queue.put(alert) returns at once
\* unless the queue is full.
PmEnqueue ==
    /\ pm.enqueued < Len(alerts)
    /\ ~QueueFull
    /\ pm' = [pm EXCEPT !.enqueued = @ + 1]
    /\ pm_queue' = Append(pm_queue, pm.enqueued + 1)
    /\ UNCHANGED <<pm_workers, plVars>>
    /\ UNCHANGED notPM

\* A worker without its except clause.
WorkerCatchesNothing(exception) == FALSE

\* except Exception as e: logger.error(...) in _worker
WorkerCatches(exception) == exception # "CancelledError"

\* The worker takes the next alert off the queue and calls process_alert, which
\* runs to its first suspension; an exception of process_alert is logged by the
\* worker, which goes on with its loop.
WorkerDequeue(k) ==
    /\ Alive(k)
    /\ ~Busy(k)
    /\ pm_queue # <<>>
    /\ LET i == Head(pm_queue)
           w == ProcessAlert(World(i), AlertOf(i))
           escaped == w.run.pc = "raised" /\ ~WorkerCatches(w.run.exception)
       IN  /\ Settle(i, w, sem)
           /\ pm_workers' = [pm_workers EXCEPT
                                ![k] = [pc |-> IF escaped THEN "crashed" ELSE "loop",
                                        current |-> i]]
    /\ pm_queue' = Tail(pm_queue)
    /\ UNCHANGED <<pm, plConfig, batch>>
    /\ UNCHANGED notPM

\* CancelledError is thrown into process_alert at the await it is suspended
\* in; it is not an Exception, so that no except clause of the stages, of
\* publish or of process_alert catches it.
CancelledRun(w) == [w EXCEPT !.run.pc = "cancelled"]

\* await self.worker_task for a task that has ended: CancelledError for a
\* cancelled task, which stop() catches; the exception of a task that an
\* exception ended, which it does not.
StopOutcome(pc) == IF pc = "crashed" THEN "raised" ELSE "returned"

\* stop(): self.running = False, worker_task.cancel(), then await worker_task.
\* The cancellation reaches the worker at the await it is suspended in.
PmStop ==
    /\ pm.stop # "awaiting"
    /\ pm.stops < MaxStops
    /\ LET k == Len(pm_workers)
       IN  IF k = 0 \/ ~Alive(k)
           THEN /\ pm' = [pm EXCEPT !.stops = @ + 1, !.running = FALSE,
                                    !.stop = IF k = 0 THEN "returned"
                                             ELSE StopOutcome(pm_workers[k].pc)]
                /\ UNCHANGED <<pm_workers, runs, metrics, events, sem>>
           ELSE /\ pm' = [pm EXCEPT !.stops = @ + 1, !.running = FALSE,
                                    !.stop = "awaiting", !.awaited = k]
                /\ pm_workers' = [pm_workers EXCEPT ![k].pc = "cancelling"]
                /\ IF Busy(k)
                   THEN Settle(pm_workers[k].current,
                               CancelledRun(World(pm_workers[k].current)), sem)
                   ELSE UNCHANGED <<runs, metrics, events, sem>>
    /\ UNCHANGED <<pm_queue, plConfig, batch>>
    /\ UNCHANGED notPM

\* The cancelled worker task ends.
WorkerExit(k) ==
    /\ pm_workers[k].pc = "cancelling"
    /\ pm_workers' = [pm_workers EXCEPT ![k].pc = "cancelled"]
    /\ UNCHANGED <<pm, pm_queue, plVars>>
    /\ UNCHANGED notPM

\* await self.worker_task raises CancelledError in stop(), which returns.
PmStopReturn ==
    /\ pm.stop = "awaiting"
    /\ pm_workers[pm.awaited].pc = "cancelled"
    /\ pm' = [pm EXCEPT !.stop = "returned", !.awaited = 0]
    /\ UNCHANGED <<pm_workers, pm_queue, plVars>>
    /\ UNCHANGED notPM

(***************************************************************************)
(* Properties of process_alert                                             *)
(***************************************************************************)

\* class PipelineStage, in declaration order
PipelineStage ==
    <<"received", "ml_detection", "triage_analysis", "context_enrichment",
      "case_creation", "response_action", "completed", "failed">>

Rank(stage) == Index(PipelineStage, stage)

\* The stage a key of pipeline_result["stages"] belongs to.
KeyStage(key) ==
    CASE key = "ml_detection" -> "ml_detection"
      [] key = "triage" -> "triage_analysis"
      [] key = "enrichment" -> "context_enrichment"
      [] key = "case_creation" -> "case_creation"
      [] key = "response" -> "response_action"

Recorded(t, p, stage) == \E q \in 1..(p - 1) : t[q].ev = "rec" /\ t[q].stage = stage

\* C2 as stated: process_alert always returns a result and never lets an
\* exception escape; a failed run has final_status failed, an error recorded
\* and total_failed incremented.
C2_AlwaysReturns ==
    \A i \in DOMAIN runs :
        /\ runs[i].pc # "raised"
        /\ runs[i].pc = "returned" => runs[i].final_status \in {"completed", "failed"}
        /\ runs[i].final_status = "failed" =>
              (runs[i].error # "None" /\ metrics.total_failed >= 1)

\* C3: within a run, stage results are recorded in the order ml_detection,
\* triage_analysis, context_enrichment, case_creation, response_action; a
\* collaborator is called only after the results of the stages before it are
\* recorded; final_status moves forward in this order, or jumps to failed.
C3_StageOrder ==
    \A i \in DOMAIN runs :
        LET t == runs[i].trace
            keys == StageKeys(runs[i])
        IN  /\ \A p, q \in DOMAIN t :
                  (p < q /\ t[p].ev = "rec" /\ t[q].ev = "rec")
                  => Rank(t[p].stage) < Rank(t[q].stage)
            /\ \A p, q \in DOMAIN t :
                  (t[p].ev = "call" /\ t[q].ev = "rec")
                  => (q < p <=> Rank(t[q].stage) < Rank(t[p].stage))
            /\ \A p \in DOMAIN t :
                  t[p].ev = "call" =>
                     /\ t[p].stage = "triage_analysis" => Recorded(t, p, "ml_detection")
                     /\ t[p].stage = "context_enrichment" => Recorded(t, p, "triage_analysis")
                     /\ t[p].stage = "case_creation" =>
                           /\ Recorded(t, p, "triage_analysis")
                           /\ enable_rag => Recorded(t, p, "context_enrichment")
            /\ \A p, q \in DOMAIN t :
                  (p < q /\ t[p].ev = "status" /\ t[q].ev = "status")
                  => /\ t[p].stage # "failed"
                     /\ t[q].stage = "failed" \/ Rank(t[p].stage) < Rank(t[q].stage)
            /\ \A p, q \in DOMAIN keys :
                  p < q => Rank(KeyStage(keys[p])) < Rank(KeyStage(keys[q]))

\* A completed run that went through all five stages.
C3_Witness ==
    \E i \in DOMAIN runs :
        /\ runs[i].final_status = "completed"
        /\ StageKeys(runs[i]) =
              <<"ml_detection", "triage", "enrichment", "case_creation", "response">>
        /\ \E p \in DOMAIN runs[i].trace :
              runs[i].trace[p] = [ev |-> "call", stage |-> "ml_detection"]

\* The severity order the policy is stated in: info < low < medium < high < critical.
SeverityLevel(severity) ==
    CASE severity = "info" -> 1
      [] severity = "low" -> 2
      [] severity = "medium" -> 3
      [] severity = "high" -> 4
      [] severity = "critical" -> 5

\* C4: in a completed run the enrichment entry is present iff enrichment is
\* enabled; the case_creation entry and the case_created action are present iff
\* the triage severity is at least the threshold; the response entry and the
\* response_triggered action are present iff the severity is high or critical;
\* a case-creation action precedes a response action.
C4_ConditionalStages ==
    \A i \in DOMAIN runs :
        runs[i].final_status = "completed" =>
            LET severity == StageOut(runs[i], "triage").severity
                case == SeverityLevel(severity) >= SeverityLevel(thehive_threshold)
                response == severity \in {"high", "critical"}
            IN  /\ HasStage(runs[i], "ml_detection") /\ HasStage(runs[i], "triage")
                /\ HasStage(runs[i], "enrichment") <=> enable_rag
                /\ HasStage(runs[i], "case_creation") <=> case
                /\ HasStage(runs[i], "response") <=> response
                /\ runs[i].actions =
                      (IF case THEN <<"case_created">> ELSE <<>>)
                      \o (IF response THEN <<"response_triggered">> ELSE <<>>)

\* A critical alert with enrichment disabled: no enrichment entry, and the
\* actions are a case creation followed by a response.
C4_Witness ==
    \E i \in DOMAIN runs :
        /\ runs[i].pc = "returned"
        /\ runs[i].final_status = "completed"
        /\ ~enable_rag
        /\ StageOut(runs[i], "triage").severity = "critical"
        /\ ~HasStage(runs[i], "enrichment")
        /\ runs[i].actions = <<"case_created", "response_triggered">>

\* The detection collaborator failed in run i: the alert carries features, ML
\* is enabled, and the detection stage used the fallback.
DetectionFailed(i) ==
    /\ alerts[i].has_features
    /\ enable_ml
    /\ HasStage(runs[i], "ml_detection")
    /\ "fallback" \in DOMAIN StageOut(runs[i], "ml_detection")

TriageCalled(i) ==
    \E p \in DOMAIN runs[i].trace :
        runs[i].trace[p] = [ev |-> "call", stage |-> "triage_analysis"]

TriageSeverityValid(i) ==
    HasStage(runs[i], "triage")
    /\ InList(threshold_order, StageOut(runs[i], "triage").severity)

CollaboratorFailed(i, key) ==
    /\ HasStage(runs[i], key)
    /\ metrics.stage_times[key] = 0

\* C19: when the enrichment or the case-management collaborator fails, the
\* error is recorded in that stage's output and the run goes on: whatever these
\* two collaborators did, a run whose triage severity is one of the five levels
\* ends completed, with no error, counted in total_processed, after the
\* enrichment stage (when enabled) and the later stages the policy dictates.
C19_BestEffort ==
    \A i \in DOMAIN runs :
        /\ \A key \in {"enrichment", "case_creation"} :
              CollaboratorFailed(i, key) => "error" \in DOMAIN StageOut(runs[i], key)
        /\ (runs[i].pc = "returned" /\ TriageSeverityValid(i)) =>
              LET severity == StageOut(runs[i], "triage").severity
              IN  /\ runs[i].final_status = "completed"
                  /\ runs[i].error = "None"
                  /\ metrics.total_processed = 1
                  /\ metrics.total_failed = 0
                  /\ HasStage(runs[i], "enrichment") <=> enable_rag
                  /\ HasStage(runs[i], "case_creation") <=>
                        SeverityLevel(severity) >= SeverityLevel(thehive_threshold)
                  /\ HasStage(runs[i], "response") <=>
                        severity \in {"high", "critical"}

\* A run that completed, response stage included, although both the enrichment
\* and the case-management collaborator failed.
C19_Witness ==
    \E i \in DOMAIN runs :
        /\ CollaboratorFailed(i, "enrichment")
        /\ CollaboratorFailed(i, "case_creation")
        /\ runs[i].pc = "returned"
        /\ runs[i].final_status = "completed"
        /\ HasStage(runs[i], "response")
        /\ metrics.total_processed = 1

\* The keys under which process_alert records the stages' outputs.
StageNames == {"ml_detection", "triage", "enrichment", "case_creation", "response"}

\* C22 as stated: every stage the run has executed (its output is recorded and
\* is not the "skipped" marker) has appended exactly one elapsed-time sample,
\* whether it succeeded, returned a fallback result or recorded an error.
C22_StageTimes ==
    \A i \in DOMAIN runs :
        \A key \in StageNames :
            (HasStage(runs[i], key) /\ "skipped" \notin DOMAIN StageOut(runs[i], key)) =>
                metrics.stage_times[key] = 1

\* The positions of run i's trace at which it handed its completion event to
\* the bus, and at which it incremented a counter.
PublishedAt(i) == {p \in DOMAIN runs[i].trace : runs[i].trace[p].ev = "publish"}
CountedAt(i) == {p \in DOMAIN runs[i].trace : runs[i].trace[p].ev = "count"}

\* C23 as stated: a run that has returned, completed or failed, has published
\* one completion event, which carries its result, and has incremented one
\* counter, once, after that publication.
C23_PublishThenCount ==
    \A i \in DOMAIN runs :
        runs[i].pc = "returned" =>
            /\ Cardinality(PublishedAt(i)) = 1
            /\ Cardinality(CountedAt(i)) = 1
            /\ \A p \in PublishedAt(i) : \A c \in CountedAt(i) : p < c
            /\ [type |-> "alert_processed", alert_id |-> runs[i].alert_id,
                final_status |-> runs[i].final_status] \in events

\* Run i has entered the case_creation stage.
CaseStageEntered(i) ==
    \E p \in DOMAIN runs[i].trace :
        runs[i].trace[p] = [ev |-> "call", stage |-> "case_creation"]

\* How many times "case_created" is in the actions of run i.
CaseCreatedCount(i) ==
    Cardinality({p \in DOMAIN runs[i].actions : runs[i].actions[p] = "case_created"})

\* C29: "case_created" is in a run's actions, once, exactly when the run has
\* entered the case_creation stage and the stage has returned, whether the
\* case-management call succeeded or failed; a run that is past the decision
\* has entered the stage exactly when its triage severity reaches the threshold.
C29_CaseCreated ==
    \A i \in DOMAIN runs :
        /\ CaseCreatedCount(i) <= 1
        /\ CaseCreatedCount(i) = 1 <=>
              (CaseStageEntered(i) /\ runs[i].pc # "case_call")
        /\ CaseCreatedCount(i) = 1 <=> HasStage(runs[i], "case_creation")
        /\ (runs[i].pc \in {"publish", "returned"} /\ HasStage(runs[i], "triage")) =>
              (CaseStageEntered(i) <=>
                  /\ TriageSeverityValid(i)
                  /\ SeverityLevel(StageOut(runs[i], "triage").severity)
                        >= SeverityLevel(thehive_threshold))

\* A run has returned whose case-management call failed: the stage output is
\* the error, and "case_created" is in the actions.
C29_Witness ==
    \E i \in DOMAIN runs :
        /\ runs[i].pc = "returned"
        /\ HasStage(runs[i], "case_creation")
        /\ "error" \in DOMAIN StageOut(runs[i], "case_creation")
        /\ CaseCreatedCount(i) = 1

\* C30: a run whose triage output carries a severity outside the five levels
\* has counted that severity as soon as the output is recorded; once returned
\* it is failed with an error, counted in total_failed and not in
\* total_processed, and has run neither the case_creation nor the response
\* stage.
C30_InvalidSeverity ==
    \A i \in DOMAIN runs :
        (HasStage(runs[i], "triage") /\ ~TriageSeverityValid(i)) =>
            /\ metrics.severity_counts[StageOut(runs[i], "triage").severity] = 1
            /\ ~HasStage(runs[i], "case_creation")
            /\ ~HasStage(runs[i], "response")
            /\ metrics.total_processed = 0
            /\ runs[i].pc = "returned" =>
                  /\ runs[i].final_status = "failed"
                  /\ runs[i].error # "None"
                  /\ metrics.total_failed = 1

\* A run has returned whose triage collaborator answered without a severity;
\* the enrichment stage ran before the run failed.
C30_Witness ==
    \E i \in DOMAIN runs :
        /\ runs[i].pc = "returned"
        /\ HasStage(runs[i], "triage")
        /\ StageOut(runs[i], "triage").severity = "None"
        /\ "fallback" \notin DOMAIN StageOut(runs[i], "triage")
        /\ HasStage(runs[i], "enrichment")
        /\ runs[i].final_status = "failed"

(***************************************************************************)
(* Properties of batch_process                                             *)
(***************************************************************************)

Counted(i, what) ==
    Cardinality({p \in DOMAIN runs[i].trace :
                    runs[i].trace[p] = [ev |-> "count", stage |-> what]})

\* The runs holding a slot of the semaphore inside process_alert.
InFlight == {i \in DOMAIN runs :
                runs[i].pc \in {"ml_call", "triage_call", "rag_call", "case_call", "publish"}}

\* C6 as stated: every invocation that is over has incremented exactly one of
\* total_processed and total_failed, exactly once, and the counters hold no
\* other increment: their sum is the number of invocations that are over.
C6_CountsExact ==
    /\ \A i \in DOMAIN runs :
          /\ Counted(i, "processed") + Counted(i, "failed") <= 1
          /\ runs[i].pc \in {"returned", "raised"} =>
                Counted(i, "processed") + Counted(i, "failed") = 1
    /\ metrics.total_processed =
          Cardinality({i \in DOMAIN runs : Counted(i, "processed") = 1})
    /\ metrics.total_failed =
          Cardinality({i \in DOMAIN runs : Counted(i, "failed") = 1})
    /\ (\A i \in DOMAIN runs : runs[i].pc \in {"returned", "raised"}) =>
          metrics.total_processed + metrics.total_failed = Len(alerts)

\* C7 as stated: batch_process returns one entry per input alert, at the
\* position of its input; the entry of a run that raised captures the error
\* with final_status failed, and the batch is never aborted.
C7_BatchIsolation ==
    /\ batch.pc # "raised"
    /\ batch.pc = "done" =>
          /\ Len(batch.results) = Len(alerts)
          /\ \A i \in DOMAIN alerts :
                /\ batch.results[i].alert_id = i
                /\ runs[i].pc = "raised" =>
                      (batch.results[i].final_status = "failed"
                       /\ batch.results[i].error # "None")

\* C8: at no moment are more than SemWidth runs in flight, and every alert of
\* the batch is eventually processed.
C8_Ceiling ==
    /\ [](Cardinality(InFlight) <= SemWidth)
    /\ <>(\A i \in DOMAIN runs : runs[i].pc = "returned")

\* The semaphore is exhausted while a task waits for a slot.
C8_Witness ==
    /\ Cardinality(InFlight) = SemWidth
    /\ sem.waiters # <<>>

(***************************************************************************)
(* Properties of the pipeline manager                                      *)
(***************************************************************************)

\* The alerts a worker has taken off the queue.
Dequeued == {i \in DOMAIN runs : runs[i].pc # "new"}

\* C20 as stated: stop() returns only after the worker has terminated, and once
\* it has returned every well-formed alert that a worker had dequeued has a
\* recorded outcome, counted once in total_processed or total_failed; the
\* counters hold exactly the counted runs.
C20_StopLeavesNoAlert ==
    /\ pm.stop = "returned" =>
          /\ \A k \in DOMAIN pm_workers : ~Alive(k) => pm_workers[k].pc = "cancelled"
          /\ (\A k \in DOMAIN pm_workers : ~Alive(k)) =>
                \A i \in Dequeued :
                    alerts[i].mapping =>
                       Counted(i, "processed") + Counted(i, "failed") = 1
    /\ metrics.total_processed =
          Cardinality({i \in DOMAIN runs : Counted(i, "processed") = 1})
    /\ metrics.total_failed =
          Cardinality({i \in DOMAIN runs : Counted(i, "failed") = 1})

\* The worker tasks that can still take alerts off the queue.
AliveWorkers == {k \in DOMAIN pm_workers : Alive(k)}

\* C21: over any sequence of start() and stop() calls at most one worker task
\* is alive, it is the manager's current worker_task and the manager is
\* running; a start() of a running manager creates no worker (a further worker
\* takes a stop() in between); stop() never raises, and a stopped manager has
\* no live worker.
C21_Idempotent ==
    /\ Cardinality(AliveWorkers) <= 1
    /\ \A k \in AliveWorkers : k = Len(pm_workers) /\ pm.running
    /\ Len(pm_workers) <= pm.stops + 1
    /\ pm.stop # "raised"
    /\ (pm.stop = "returned" /\ pm.awaited = 0 /\ ~pm.running) => AliveWorkers = {}

\* start() was called twice in a row, then stop() twice: the second start()
\* found the manager running, the second stop() found it stopped.
C21_Witness ==
    /\ pm.starts = 2
    /\ pm.stops = 2
    /\ Len(pm_workers) = 1
    /\ pm.stop = "returned"
    /\ ~pm.running

\* C24 as stated: the queue has a fixed capacity, here any capacity below the
\* number of alerts the producers offer: the alerts waiting never exceed it, so
\* that the offered alerts are never all waiting in the queue at once.
C24_QueueBounded ==
    \E capacity \in 1..(MaxEnqueued - 1) : Len(pm_queue) <= capacity

\* Alert i was accepted by enqueue_alert and is still waiting in the queue of
\* a running manager.
WaitingWhileRunning(i) ==
    /\ i \in DOMAIN runs
    /\ i <= pm.enqueued
    /\ runs[i].pc = "new"
    /\ pm.running

\* The alerts are taken in the order they were enqueued, each once: those
\* dequeued are the first ones enqueued, the queue holds the others in order.
FifoOnce ==
    LET n == Cardinality(Dequeued)
    IN  /\ Dequeued = 1..n
        /\ pm_queue = [j \in 1..(pm.enqueued - n) |-> n + j]

\* C25: the worker takes the alerts in FIFO order, each once and one at a time;
\* a running manager always has a live worker, whatever happened to the alerts
\* processed so far; and an accepted alert waiting in the queue is eventually
\* passed to process_alert unless the manager is stopped.
C25_Worker ==
    /\ [](FifoOnce)
    /\ [](Cardinality(InFlight) <= 1)
    /\ [](pm.running => Len(pm_workers) > 0 /\ Alive(Len(pm_workers)))
    /\ \A i \in 1..MaxEnqueued :
          WaitingWhileRunning(i) ~> (i \in Dequeued \/ ~pm.running)

\* The first alert was not a mapping and process_alert raised; the worker went
\* on and has processed the alert queued behind it.
C25_Witness ==
    /\ Len(runs) >= 2
    /\ runs[1].pc = "raised"
    /\ runs[2].pc = "returned"
    /\ pm.running
    /\ pm.stops = 0
    /\ Alive(Len(pm_workers))

(***************************************************************************)
(* Properties of the rate limiter                                          *)
(***************************************************************************)

\* Calls i..j of client c are a burst: is_allowed calls only, the client holding
\* no unexpired timestamp when the burst starts, and the calls spanning at most
\* window_seconds.
IsBurst(c, i, j) ==
    /\ i <= j
    /\ \A k \in i..j : calls[c][k].op = "is_allowed"
    /\ \A p \in 1..(i - 1) :
          (/\ \A q \in p..(i - 1) : calls[c][q].op = "is_allowed"
           /\ calls[c][p].allowed)
          => calls[c][p].time < calls[c][i].time - window_seconds
    /\ calls[c][j].time - calls[c][i].time <= window_seconds

Bursts == {b \in Clients \X (1..MaxCalls) \X (1..MaxCalls) :
              b[3] <= Len(calls[b[1]]) /\ IsBurst(b[1], b[2], b[3])}

\* C1 as stated: in a burst of is_allowed calls of one client inside one
\* W-length interval, exactly the first L calls are admitted, and the (L+1)th
\* is rejected with 0 < retry_after <= W.
C1_BurstStrict ==
    \A b \in Bursts :
        LET c == b[1]
            n == b[3] - b[2] + 1
            last == calls[c][b[3]]
        IN  /\ last.allowed <=> (n <= requests_per_window)
            /\ n = requests_per_window + 1 =>
                  (last.retry_after > 0 /\ last.retry_after <= window_seconds)

\* C1 amended: in such a burst exactly the first L calls are admitted; every
\* later call is rejected with 0 <= retry_after <= W, and retry_after is 0 only
\* for a call made exactly W after the first call of the burst.
C1_Burst ==
    \A b \in Bursts :
        LET c == b[1]
            n == b[3] - b[2] + 1
            first == calls[c][b[2]]
            last == calls[c][b[3]]
        IN  /\ last.allowed <=> (n <= requests_per_window)
            /\ n > requests_per_window =>
                  /\ last.retry_after >= 0
                  /\ last.retry_after <= window_seconds
                  /\ last.retry_after = 0 <=> last.time - first.time = window_seconds

\* A burst of L+1 calls over more than one instant whose last call was rejected.
C1_Witness ==
    \E b \in Bursts :
        /\ b[3] - b[2] = requests_per_window
        /\ ~calls[b[1]][b[3]].allowed
        /\ calls[b[1]][b[3]].retry_after > 0
        /\ calls[b[1]][b[3]].time > calls[b[1]][b[2]].time

\* The is_allowed calls of client c, by position in its history.
AllowedCalls(c) == {k \in DOMAIN calls[c] : calls[c][k].op = "is_allowed"}

\* The position of the last reset of client c before its call k, or 0.
LastReset(c, k) ==
    LET resets == {p \in 1..(k - 1) : calls[c][p].op = "reset"}
    IN  IF resets = {} THEN 0 ELSE CHOOSE p \in resets : \A q \in resets : q <= p

\* The admitted requests of client c that are not older than W at its call k
\* and were not forgotten by a reset: the timestamps still inside the window.
InWindow(c, k) ==
    {p \in (LastReset(c, k) + 1)..(k - 1) :
        calls[c][p].allowed /\ calls[c][p].time >= calls[c][k].time - window_seconds}

SetMin(S) == CHOOSE x \in S : \A y \in S : x <= y

\* Between calls j and k of client c there are only rejected is_allowed calls.
OnlyRejectedBetween(c, j, k) ==
    \A p \in j..(k - 1) : calls[c][p].op = "is_allowed" /\ ~calls[c][p].allowed

\* C11: a request of a client is rejected exactly while L of its timestamps are
\* still inside the window; a rejected client is admitted on its first request
\* made after its oldest retained timestamp has become older than W.
C11_WindowExpiry ==
    \A c \in Clients :
        /\ \A k \in AllowedCalls(c) :
              calls[c][k].allowed <=> Cardinality(InWindow(c, k)) < requests_per_window
        /\ \A j, k \in AllowedCalls(c) :
              (/\ j < k
               /\ OnlyRejectedBetween(c, j, k)
               /\ calls[c][k].time > calls[c][j].time + calls[c][j].retry_after)
              => calls[c][k].allowed

\* A client rejected, then admitted on a later request without any reset.
C11_Witness ==
    \E c \in Clients : \E j, k \in AllowedCalls(c) :
        /\ j < k
        /\ OnlyRejectedBetween(c, j, k)
        /\ calls[c][k].time > calls[c][j].time + calls[c][j].retry_after
        /\ calls[c][k].allowed

\* The history of the example: four is_allowed calls at 0, 1, 2 and 3 s.
IsExample(c) ==
    /\ requests_per_window = 3
    /\ window_seconds = 60
    /\ Len(calls[c]) = 4
    /\ \A k \in 1..4 : calls[c][k].op = "is_allowed" /\ calls[c][k].time = k - 1

\* C12: a rejected call returns retry_after = oldest + W - now, oldest being the
\* oldest timestamp still retained; with limit 3 and window 60, calls at 0, 1,
\* 2 and 3 s are answered true, true, true, false, the last with retry_after 57.
C12_RetryAfter ==
    \A c \in Clients :
        /\ \A k \in AllowedCalls(c) :
              ~calls[c][k].allowed =>
                 /\ InWindow(c, k) # {}
                 /\ calls[c][k].retry_after =
                       calls[c][SetMin(InWindow(c, k))].time + window_seconds
                       - calls[c][k].time
        /\ IsExample(c) =>
              /\ \A k \in 1..3 : calls[c][k].allowed
              /\ ~calls[c][4].allowed
              /\ calls[c][4].retry_after = 57

\* The example has been run to its fourth call.
C12_Witness ==
    \E c \in Clients :
        /\ IsExample(c)
        /\ ~calls[c][4].allowed
        /\ calls[c][4].retry_after = 57

\* The timestamps of client c in log that is_allowed would retain at time t.
Retained(log, c, t) ==
    IF c \in DOMAIN log THEN SelectSeq(log[c], LAMBDA ts : ts >= t - window_seconds)
    ELSE <<>>

\* What is_allowed(c) would answer in this state.
WouldAllow(c) == IsAllowedResult(c).allowed

\* The pair is_allowed(c) would return at time t on a limiter in state (log, lc).
Outcome(log, lc, c, t) ==
    LET r == IsAllowedOn(log, lc, c, t)
    IN  [allowed |-> r.allowed, retry_after |-> IF r.allowed THEN 0 ELSE r.retry_after]

\* The limiter states a request or a reset of client c2 can lead to from here.
AfterRequestOf(c2) ==
    {[log |-> IsAllowedResult(c2).log, last_cleanup |-> IsAllowedResult(c2).last_cleanup],
     [log |-> IF c2 \in DOMAIN request_log THEN DictDel(request_log, c2) ELSE request_log,
      last_cleanup |-> last_cleanup]}

\* C13 as stated: whatever the state of the limiter, a request of client c2
\* leaves the stored timestamps of another client c1 as they were.
C13_FrameStrict ==
    \A c1, c2 \in Clients :
        c1 # c2 =>
           \A a \in AfterRequestOf(c2) :
              /\ (c1 \in DOMAIN a.log) <=> (c1 \in DOMAIN request_log)
              /\ c1 \in DOMAIN request_log => a.log[c1] = request_log[c1]

\* C13 amended: whatever the state of the limiter, a request of client c2
\* leaves the timestamps of another client c1 that are still inside the window
\* as they were, and changes neither the outcome nor the retry_after of an
\* is_allowed(c1) call made afterwards, at that instant or later; it may only
\* remove expired timestamps of c1.
C13_Isolation ==
    \A c1, c2 \in Clients :
        c1 # c2 =>
           \A a \in AfterRequestOf(c2) :
              \A t \in now..MaxTime :
                 /\ Retained(a.log, c1, t) = Retained(request_log, c1, t)
                 /\ Outcome(a.log, a.last_cleanup, c1, t)
                       = Outcome(request_log, last_cleanup, c1, t)

\* Another client was admitted and rejected between two requests of a client
\* whose second request was rejected on its own budget.
C13_Witness ==
    \E c1, c2 \in Clients :
        /\ c1 # c2
        /\ Len(calls[c1]) >= 2
        /\ calls[c1][1].allowed
        /\ calls[c1][Len(calls[c1])].op = "is_allowed"
        /\ ~calls[c1][Len(calls[c1])].allowed
        /\ \E p, q \in AllowedCalls(c2) :
              /\ calls[c2][p].allowed /\ ~calls[c2][q].allowed
              /\ calls[c2][p].time >= calls[c1][1].time
              /\ calls[c2][q].time <= calls[c1][Len(calls[c1])].time
              /\ calls[c2][q].time > calls[c1][1].time

\* C14 as stated: get_remaining_requests returns max(0, L - n), n being the
\* number of the client's timestamps that is_allowed would retain at that
\* instant, so that it returns 0 exactly when is_allowed would reject.
C14_RemainingMatches ==
    \A r \in last_remaining :
        LET timestamps == IF r.client \in DOMAIN request_log
                          THEN request_log[r.client] ELSE <<>>
            n == ValidCountRetained(timestamps, now - window_seconds)
        IN  /\ r.remaining = Max(0, requests_per_window - n)
            /\ r.remaining = 0 <=> ~WouldAllow(r.client)

\* C26: the log holds no client whose timestamp sequence is empty: is_allowed
\* leaves the caller with at least one timestamp, reset_client deletes the
\* entry, and the sweep deletes every entry its pruning has emptied.
C26_NoEmptyEntry ==
    \A c \in DOMAIN request_log : Len(request_log[c]) > 0

\* A client that was admitted and never reset has no entry any more, while
\* another client has one: a sweep triggered by the other client's request
\* removed the entry when its timestamps had expired.
C26_Witness ==
    \E c \in Clients :
        /\ c \notin DOMAIN request_log
        /\ calls[c] # <<>>
        /\ \A k \in DOMAIN calls[c] : calls[c][k].op = "is_allowed"
        /\ \E c2 \in Clients \ {c} : c2 \in DOMAIN request_log

\* Client c has an entry and its whole history has expired.
HistoryExpired(c) ==
    /\ c \in DOMAIN request_log
    /\ \A p \in DOMAIN request_log[c] : request_log[c][p] < now - window_seconds

\* C27 as stated: a client whose entire history has expired is eventually
\* removed from the log (or is active again), whether or not a request
\* arrives from any client afterwards.
C27_SweepEventually ==
    \A c \in Clients : HistoryExpired(c) ~> ~HistoryExpired(c)

\* C28: whatever the state of the limiter, an is_allowed(c) call that is
\* rejected leaves c exactly the unexpired timestamps it had and changes the
\* outcome of no later is_allowed(c) call; in the calls made so far, two
\* rejections in a row announce the same moment (time + retry_after).
C28_RejectedRecordsNothing ==
    \A c \in Clients :
        /\ LET r == IsAllowedResult(c)
           IN  ~r.allowed =>
                  /\ r.log[c] = Retained(request_log, c, now)
                  /\ \A t \in now..MaxTime :
                        Outcome(r.log, r.last_cleanup, c, t)
                           = Outcome(request_log, last_cleanup, c, t)
        /\ \A k \in 1..(Len(calls[c]) - 1) :
              (/\ calls[c][k].op = "is_allowed" /\ ~calls[c][k].allowed
               /\ calls[c][k + 1].op = "is_allowed" /\ ~calls[c][k + 1].allowed) =>
                 calls[c][k].time + calls[c][k].retry_after
                    = calls[c][k + 1].time + calls[c][k + 1].retry_after

\* A client was rejected twice in a row, at different times, and is rejected
\* now as well.
C28_Witness ==
    \E c \in Clients :
        /\ ~WouldAllow(c)
        /\ \E k \in 1..(Len(calls[c]) - 1) :
              /\ calls[c][k].op = "is_allowed" /\ ~calls[c][k].allowed
              /\ calls[c][k + 1].op = "is_allowed" /\ ~calls[c][k + 1].allowed
              /\ calls[c][k].time < calls[c][k + 1].time

(***************************************************************************)
(* Properties of the rate-limit middleware                                 *)
(***************************************************************************)

RateLimitHeaders == {"X-RateLimit-Limit", "X-RateLimit-Remaining", "X-RateLimit-Reset"}

\* C15 as stated: every response to a request that passed through the limiter
\* carries the three X-RateLimit headers; a rejected request gets 429 with
\* Retry-After and X-RateLimit-Remaining 0, its handler not invoked; an
\* admitted request gets X-RateLimit-Remaining = L minus the number of the
\* client's requests inside the window when the response is built.
C15_Headers ==
    \A r \in mw_responses :
        (r.req.limited /\ r.kind # "raised") =>
            /\ RateLimitHeaders \subseteq DOMAIN r.headers
            /\ r.headers["X-RateLimit-Limit"] = requests_per_window
            /\ r.kind = "rejected" =>
                  /\ r.status = 429
                  /\ "Retry-After" \in DOMAIN r.headers
                  /\ r.headers["X-RateLimit-Remaining"] = 0
                  /\ ~r.handler
            /\ r.kind = "forwarded" =>
                  r.headers["X-RateLimit-Remaining"] = requests_per_window - r.in_window

\* C16: a request to an exempt path is always handed to the handler and never
\* answered with 429, and no limiter gets a timestamp for it: a client's log
\* holds at most one timestamp per admitted request to a non-exempt path.
C16_ExemptPaths ==
    /\ \A r \in mw_responses :
          r.req.path \in ExemptPaths => (r.handler /\ r.status # 429 /\ ~r.req.limited)
    /\ \A q \in mw_pending : q.path \in ExemptPaths => ~q.limited
    /\ \A c \in DOMAIN request_log :
          Len(request_log[c]) <=
             Cardinality({q \in mw_pending : q.client = c /\ q.path \notin ExemptPaths})
             + Cardinality({r \in mw_responses :
                               /\ r.req.client = c
                               /\ r.req.path \notin ExemptPaths
                               /\ r.kind # "rejected"})

\* A client whose budget is used up is served on an exempt path.
C16_Witness ==
    \E r \in mw_responses :
        /\ r.req.path \in ExemptPaths
        /\ r.kind = "forwarded"
        /\ r.in_window = requests_per_window
        /\ ~WouldAllow(r.req.client)

(***************************************************************************)
(* Properties of the event bus                                             *)
(***************************************************************************)

\* The callbacks registered for the type of the publish call.
Registered ==
    IF eb_pub.type \in DOMAIN eb_subscribers THEN eb_subscribers[eb_pub.type] ELSE <<>>

\* C17: publish never raises; the callbacks it has invoked are, one for one and
\* in order, the callbacks registered for its event type, none of another
\* type; when it returns, every callback that was registered for the type when
\* it was called has been invoked exactly once, whether or not an earlier
\* callback raised.
C17_Publish ==
    /\ eb_pub.pc # "raised"
    /\ Len(eb_pub.invoked) <= Len(Registered)
    /\ \A k \in DOMAIN eb_pub.invoked : eb_pub.invoked[k].callback = Registered[k]
    /\ eb_pub.pc = "returned" => Len(eb_pub.invoked) >= eb_pub.registered

\* A publish that returned after its first callback raised and a later one ran.
C17_Witness ==
    /\ eb_pub.pc = "returned"
    /\ Len(eb_pub.invoked) >= 2
    /\ eb_pub.invoked[1].outcome = "raise"
    /\ eb_pub.invoked[2].outcome = "ok"
    /\ \E t \in DOMAIN eb_subscribers : t # eb_pub.type

(***************************************************************************)
(* Properties of the fallbacks                                             *)
(***************************************************************************)

\* The keys of the result a stage returns when its collaborator answers.
SuccessKeys(fallback) ==
    IF fallback = "ml" THEN DOMAIN MlResult("BENIGN") ELSE DOMAIN TriageResult("low")

\* C18 as stated: a fallback never raises, whatever the alert; its result has
\* the keys of the collaborator's success result plus fallback, which is true.
C18_Fallbacks ==
    \A r \in fb_result :
        /\ r.pc = "returned"
        /\ DOMAIN r.out = SuccessKeys(r.fallback) \cup {"fallback"}
        /\ r.out.fallback = TRUE

(***************************************************************************)
(* Properties of the retry wrapper                                         *)
(***************************************************************************)

RECURSIVE Power(_, _)
Power(b, n) == IF n = 0 THEN 1 ELSE b * Power(b, n - 1)

\* C9: a call whose every attempt fails makes exactly max_attempts attempts,
\* sleeps delay * backoff^(k-1) after the k-th failed attempt but not after the
\* last one, and raises the failure of the last attempt; a successful attempt
\* returns at once, being the last attempt made.
C9_RetrySchedule ==
    /\ Len(rt_attempts) <= max_attempts
    /\ \A k \in 1..Len(rt_sleeps) : rt_sleeps[k] = delay * Power(backoff, k - 1)
    /\ \A k \in 1..(Len(rt_attempts) - 1) : rt_attempts[k] \in Failures
    /\ rt_pc = "call" => Len(rt_sleeps) = Len(rt_attempts)
    /\ rt_pc = "sleep" => Len(rt_sleeps) = Len(rt_attempts) - 1
    /\ rt_pc = "raised" =>
          /\ Len(rt_attempts) = max_attempts
          /\ \A k \in 1..max_attempts : rt_attempts[k] \in Failures
          /\ Len(rt_sleeps) = max_attempts - 1
          /\ last_exception = rt_attempts[max_attempts]
    /\ rt_pc = "returned" =>
          /\ rt_attempts[Len(rt_attempts)] = "response_2xx"
          /\ Len(rt_sleeps) = Len(rt_attempts) - 1

\* A call that failed three times, slept 1 and 2, and raised.
C9_Witness ==
    /\ rt_pc = "raised"
    /\ rt_sleeps = <<1, 2>>
    /\ Len(rt_attempts) = 3

\* C10 as stated: an attempt answered with a 4xx status is the only attempt of
\* its call: no sleep and no further attempt follows it.
C10_No4xxRetry ==
    /\ \A k \in 1..Len(rt_attempts) : rt_attempts[k] = "status_4xx" => k = 1
    /\ (rt_attempts # <<>> /\ rt_attempts[1] = "status_4xx") =>
          (rt_pc = "raised" /\ Len(rt_attempts) = 1 /\ rt_sleeps = <<>>)

(***************************************************************************)
(* Specifications                                                          *)
(***************************************************************************)

\* The limiter configurations: every one within the bounds, and the limiter of
\* 3 requests per 60 s with the default cleanup interval.
Configs ==
    ((1..MaxLimit) \X (1..MaxWindow) \X (1..(MaxWindow + 1))) \cup {<<3, 60, 300>>}

\* SlidingWindowRateLimiter.__init__, for every configuration.
RLInit ==
    /\ \E cfg \in Configs :
          /\ requests_per_window = cfg[1]
          /\ window_seconds = cfg[2]
          /\ cleanup_interval = cfg[3]
    /\ request_log = EmptyDict
    /\ last_cleanup = 0
    /\ now = 0
    /\ calls = [c \in Clients |-> <<>>]
    /\ last_remaining = {}
    /\ mw_requests = 0
    /\ mw_pending = {}
    /\ mw_responses = {}
    /\ eb_subscribers = EmptyDict
    /\ eb_pub = NoPublish
    /\ eb_publishes = 0
    /\ fb_alert = NoAlert
    /\ fb_result = {}
    /\ pm = NewManager
    /\ pm_workers = <<>>
    /\ pm_queue = <<>>
    /\ rt_pc = "idle"
    /\ rt_method = "None"
    /\ attempt = 0
    /\ current_delay = 0
    /\ last_exception = "None"
    /\ rt_attempts = <<>>
    /\ rt_sleeps = <<>>
    /\ rt_requests = 0
    /\ enable_ml = TRUE
    /\ enable_rag = TRUE
    /\ thehive_threshold = "high"
    /\ subscribers = <<>>
    /\ collab = [ml |-> {}, triage |-> {}, rag |-> {}, thehive |-> {}]
    /\ alerts = <<>>
    /\ runs = <<>>
    /\ metrics = NewMetrics
    /\ sem = [value |-> SemWidth, waiters |-> <<>>]
    /\ events = {}
    /\ batch = [pc |-> "gather", results |-> <<>>]

RLNext ==
    \/ Tick
    \/ \E c \in Clients : IsAllowed(c)
    \/ \E c \in Clients : ResetClient(c)
    \/ \E c \in Clients : GetRemaining(c)

SpecRL == RLInit /\ [][RLNext]_vars

\* Time passes whatever the callers do; nothing obliges a caller to make a
\* request.
SpecRLTime == RLInit /\ [][RLNext]_vars /\ WF_now(Tick)

RTInit ==
    /\ rt_pc = "idle"
    /\ rt_method = "None"
    /\ attempt = 0
    /\ current_delay = 0
    /\ last_exception = "None"
    /\ rt_attempts = <<>>
    /\ rt_sleeps = <<>>
    /\ rt_requests = 0
    /\ requests_per_window = 1
    /\ window_seconds = 1
    /\ cleanup_interval = 1
    /\ request_log = EmptyDict
    /\ last_cleanup = 0
    /\ now = 0
    /\ calls = [c \in Clients |-> <<>>]
    /\ last_remaining = {}
    /\ mw_requests = 0
    /\ mw_pending = {}
    /\ mw_responses = {}
    /\ eb_subscribers = EmptyDict
    /\ eb_pub = NoPublish
    /\ eb_publishes = 0
    /\ fb_alert = NoAlert
    /\ fb_result = {}
    /\ pm = NewManager
    /\ pm_workers = <<>>
    /\ pm_queue = <<>>
    /\ enable_ml = TRUE
    /\ enable_rag = TRUE
    /\ thehive_threshold = "high"
    /\ subscribers = <<>>
    /\ collab = [ml |-> {}, triage |-> {}, rag |-> {}, thehive |-> {}]
    /\ alerts = <<>>
    /\ runs = <<>>
    /\ metrics = NewMetrics
    /\ sem = [value |-> SemWidth, waiters |-> <<>>]
    /\ events = {}
    /\ batch = [pc |-> "gather", results |-> <<>>]

RTNext ==
    \/ \E m \in Methods : RtCall(m)
    \/ \E o \in Outcomes : RtAttempt(o)
    \/ RtWake

SpecRetry == RTInit /\ [][RTNext]_vars

\* AlertPipeline.__init__ for every configuration, and batch_process called with
\* one alert of any shape, against collaborators that may answer anything.
Init ==
    /\ enable_ml \in BOOLEAN
    /\ enable_rag \in BOOLEAN
    /\ thehive_threshold \in {threshold_order[i] : i \in 1..Len(threshold_order)}
    /\ subscribers \in {<<>>, <<"async">>}
    /\ collab = [ml |-> {"ATTACK", "BENIGN", "fail"},
                 triage |-> {"info", "low", "medium", "high", "critical", "None",
                             "unknown", "fail"},
                 rag |-> {"ok", "fail"},
                 thehive |-> {"ok", "fail"}]
    /\ alerts \in [1..1 -> AlertShapes]
    /\ runs = [i \in DOMAIN alerts |-> NewRun]
    /\ metrics = NewMetrics
    /\ sem = [value |-> SemWidth, waiters |-> <<>>]
    /\ events = {}
    /\ batch = [pc |-> "gather", results |-> <<>>]
    /\ requests_per_window = 1
    /\ window_seconds = 1
    /\ cleanup_interval = 1
    /\ request_log = EmptyDict
    /\ last_cleanup = 0
    /\ now = 0
    /\ calls = [c \in Clients |-> <<>>]
    /\ last_remaining = {}
    /\ mw_requests = 0
    /\ mw_pending = {}
    /\ mw_responses = {}
    /\ eb_subscribers = EmptyDict
    /\ eb_pub = NoPublish
    /\ eb_publishes = 0
    /\ fb_alert = NoAlert
    /\ fb_result = {}
    /\ pm = NewManager
    /\ pm_workers = <<>>
    /\ pm_queue = <<>>
    /\ rt_pc = "idle"
    /\ rt_method = "None"
    /\ attempt = 0
    /\ current_delay = 0
    /\ last_exception = "None"
    /\ rt_attempts = <<>>
    /\ rt_sleeps = <<>>
    /\ rt_requests = 0

Next ==
    \/ \E i \in DOMAIN runs : TaskStart(i)
    \/ \E i \in DOMAIN runs : MlReply(i)
    \/ \E i \in DOMAIN runs : TriageReply(i)
    \/ \E i \in DOMAIN runs : RagReply(i)
    \/ \E i \in DOMAIN runs : CaseReply(i)
    \/ \E i \in DOMAIN runs : PublishDone(i)
    \/ BatchCollect

Spec == Init /\ [][Next]_vars

\* Bound: the largest batch of the batch specification.
MaxBatch == 3

\* batch_process called with up to MaxBatch alerts, well-formed or not, on a
\* pipeline without enrichment whose completion event has a coroutine subscriber.
BatchInit ==
    /\ enable_ml = TRUE
    /\ enable_rag = FALSE
    /\ thehive_threshold = "high"
    /\ subscribers = <<"async">>
    /\ collab = [ml |-> {}, triage |-> {"low", "critical", "None", "fail"},
                 rag |-> {}, thehive |-> {"ok", "fail"}]
    /\ \E n \in 1..MaxBatch :
          alerts \in [1..n -> {a \in AlertShapes : ~a.has_features}]
    /\ runs = [i \in DOMAIN alerts |-> NewRun]
    /\ metrics = NewMetrics
    /\ sem = [value |-> SemWidth, waiters |-> <<>>]
    /\ events = {}
    /\ batch = [pc |-> "gather", results |-> <<>>]
    /\ requests_per_window = 1
    /\ window_seconds = 1
    /\ cleanup_interval = 1
    /\ request_log = EmptyDict
    /\ last_cleanup = 0
    /\ now = 0
    /\ calls = [c \in Clients |-> <<>>]
    /\ last_remaining = {}
    /\ mw_requests = 0
    /\ mw_pending = {}
    /\ mw_responses = {}
    /\ eb_subscribers = EmptyDict
    /\ eb_pub = NoPublish
    /\ eb_publishes = 0
    /\ fb_alert = NoAlert
    /\ fb_result = {}
    /\ pm = NewManager
    /\ pm_workers = <<>>
    /\ pm_queue = <<>>
    /\ rt_pc = "idle"
    /\ rt_method = "None"
    /\ attempt = 0
    /\ current_delay = 0
    /\ last_exception = "None"
    /\ rt_attempts = <<>>
    /\ rt_sleeps = <<>>
    /\ rt_requests = 0

BatchNext ==
    \/ \E i \in DOMAIN runs : TaskStart(i)
    \/ \E i \in DOMAIN runs : TriageReply(i)
    \/ \E i \in DOMAIN runs : CaseReply(i)
    \/ \E i \in DOMAIN runs : PublishDone(i)
    \/ BatchCollect

SpecBatch == BatchInit /\ [][BatchNext]_vars

\* Bound: how many alerts more than SemWidth the large batch holds.
Overflow == 1

\* batch_process called with more alerts than the semaphore is wide.
SemInit ==
    /\ enable_ml = TRUE
    /\ enable_rag = FALSE
    /\ thehive_threshold = "high"
    /\ subscribers = <<>>
    /\ collab = [ml |-> {}, triage |-> {"low"}, rag |-> {}, thehive |-> {}]
    /\ alerts = [i \in 1..(SemWidth + Overflow) |->
                    [mapping |-> TRUE, has_features |-> FALSE, keyword |-> "none"]]
    /\ runs = [i \in DOMAIN alerts |-> NewRun]
    /\ metrics = NewMetrics
    /\ sem = [value |-> SemWidth, waiters |-> <<>>]
    /\ events = {}
    /\ batch = [pc |-> "gather", results |-> <<>>]
    /\ requests_per_window = 1
    /\ window_seconds = 1
    /\ cleanup_interval = 1
    /\ request_log = EmptyDict
    /\ last_cleanup = 0
    /\ now = 0
    /\ calls = [c \in Clients |-> <<>>]
    /\ last_remaining = {}
    /\ mw_requests = 0
    /\ mw_pending = {}
    /\ mw_responses = {}
    /\ eb_subscribers = EmptyDict
    /\ eb_pub = NoPublish
    /\ eb_publishes = 0
    /\ fb_alert = NoAlert
    /\ fb_result = {}
    /\ pm = NewManager
    /\ pm_workers = <<>>
    /\ pm_queue = <<>>
    /\ rt_pc = "idle"
    /\ rt_method = "None"
    /\ attempt = 0
    /\ current_delay = 0
    /\ last_exception = "None"
    /\ rt_attempts = <<>>
    /\ rt_sleeps = <<>>
    /\ rt_requests = 0

SemNext ==
    \/ \E i \in DOMAIN runs : TaskStart(i)
    \/ \E i \in DOMAIN runs : TriageReply(i)
    \/ BatchCollect

\* Every collaborator call ends (each request has a timeout) and the event loop
\* runs every ready task: a step that stays possible is eventually taken.
SpecSem == SemInit /\ [][SemNext]_vars /\ WF_vars(SemNext)

\* The limiter the middleware creates: SlidingWindowRateLimiter(default_limit,
\* default_window), with the default cleanup interval of 300 s.
MWConfigs == (1..MaxLimit) \X (1..MaxWindow) \X {300}

\* RateLimitMiddleware.__init__ for every default_limit and default_window.
MWInit ==
    /\ \E cfg \in MWConfigs :
          /\ requests_per_window = cfg[1]
          /\ window_seconds = cfg[2]
          /\ cleanup_interval = cfg[3]
    /\ request_log = EmptyDict
    /\ last_cleanup = 0
    /\ now = 0
    /\ calls = [c \in Clients |-> <<>>]
    /\ last_remaining = {}
    /\ mw_requests = 0
    /\ mw_pending = {}
    /\ mw_responses = {}
    /\ eb_subscribers = EmptyDict
    /\ eb_pub = NoPublish
    /\ eb_publishes = 0
    /\ fb_alert = NoAlert
    /\ fb_result = {}
    /\ pm = NewManager
    /\ pm_workers = <<>>
    /\ pm_queue = <<>>
    /\ rt_pc = "idle"
    /\ rt_method = "None"
    /\ attempt = 0
    /\ current_delay = 0
    /\ last_exception = "None"
    /\ rt_attempts = <<>>
    /\ rt_sleeps = <<>>
    /\ rt_requests = 0
    /\ enable_ml = TRUE
    /\ enable_rag = TRUE
    /\ thehive_threshold = "high"
    /\ subscribers = <<>>
    /\ collab = [ml |-> {}, triage |-> {}, rag |-> {}, thehive |-> {}]
    /\ alerts = <<>>
    /\ runs = <<>>
    /\ metrics = NewMetrics
    /\ sem = [value |-> SemWidth, waiters |-> <<>>]
    /\ events = {}
    /\ batch = [pc |-> "gather", results |-> <<>>]

MWNext ==
    \/ Tick
    \/ \E c \in Clients, path \in Paths : Dispatch(c, path)
    \/ \E req \in mw_pending, o \in {"response", "exception"} : HandlerDone(req, o)

SpecMW == MWInit /\ [][MWNext]_vars

\* EventBus.__init__
EBInit ==
    /\ eb_subscribers = EmptyDict
    /\ eb_pub = NoPublish
    /\ eb_publishes = 0
    /\ fb_alert = NoAlert
    /\ fb_result = {}
    /\ pm = NewManager
    /\ pm_workers = <<>>
    /\ pm_queue = <<>>
    /\ requests_per_window = 1
    /\ window_seconds = 1
    /\ cleanup_interval = 1
    /\ request_log = EmptyDict
    /\ last_cleanup = 0
    /\ now = 0
    /\ calls = [c \in Clients |-> <<>>]
    /\ last_remaining = {}
    /\ mw_requests = 0
    /\ mw_pending = {}
    /\ mw_responses = {}
    /\ rt_pc = "idle"
    /\ rt_method = "None"
    /\ attempt = 0
    /\ current_delay = 0
    /\ last_exception = "None"
    /\ rt_attempts = <<>>
    /\ rt_sleeps = <<>>
    /\ rt_requests = 0
    /\ enable_ml = TRUE
    /\ enable_rag = TRUE
    /\ thehive_threshold = "high"
    /\ subscribers = <<>>
    /\ collab = [ml |-> {}, triage |-> {}, rag |-> {}, thehive |-> {}]
    /\ alerts = <<>>
    /\ runs = <<>>
    /\ metrics = NewMetrics
    /\ sem = [value |-> SemWidth, waiters |-> <<>>]
    /\ events = {}
    /\ batch = [pc |-> "gather", results |-> <<>>]

EBNext ==
    \/ \E t \in EventTypes, h \in Callbacks : Subscribe(t, h)
    \/ \E t \in EventTypes : PublishCall(t)
    \/ \E o \in {"ok", "raise"} : CallbackCalled(o)
    \/ \E o \in {"ok", "raise"} : CallbackAwaited(o)

SpecEB == EBInit /\ [][EBNext]_vars

\* A fallback is called once, with any alert.
FBInit ==
    /\ fb_alert \in FallbackAlerts
    /\ fb_result = {}
    /\ pm = NewManager
    /\ pm_workers = <<>>
    /\ pm_queue = <<>>
    /\ eb_subscribers = EmptyDict
    /\ eb_pub = NoPublish
    /\ eb_publishes = 0
    /\ requests_per_window = 1
    /\ window_seconds = 1
    /\ cleanup_interval = 1
    /\ request_log = EmptyDict
    /\ last_cleanup = 0
    /\ now = 0
    /\ calls = [c \in Clients |-> <<>>]
    /\ last_remaining = {}
    /\ mw_requests = 0
    /\ mw_pending = {}
    /\ mw_responses = {}
    /\ rt_pc = "idle"
    /\ rt_method = "None"
    /\ attempt = 0
    /\ current_delay = 0
    /\ last_exception = "None"
    /\ rt_attempts = <<>>
    /\ rt_sleeps = <<>>
    /\ rt_requests = 0
    /\ enable_ml = TRUE
    /\ enable_rag = TRUE
    /\ thehive_threshold = "high"
    /\ subscribers = <<>>
    /\ collab = [ml |-> {}, triage |-> {}, rag |-> {}, thehive |-> {}]
    /\ alerts = <<>>
    /\ runs = <<>>
    /\ metrics = NewMetrics
    /\ sem = [value |-> SemWidth, waiters |-> <<>>]
    /\ events = {}
    /\ batch = [pc |-> "gather", results |-> <<>>]

FBNext ==
    \/ MlFallbackCall
    \/ LlmFallbackCall

SpecFB == FBInit /\ [][FBNext]_vars

\* PipelineManager.__init__, and the alerts its callers are going to enqueue;
\* no batch_process call is in progress.
PMInit ==
    /\ fb_alert = NoAlert
    /\ fb_result = {}
    /\ pm = NewManager
    /\ pm_workers = <<>>
    /\ pm_queue = <<>>
    /\ eb_subscribers = EmptyDict
    /\ eb_pub = NoPublish
    /\ eb_publishes = 0
    /\ requests_per_window = 1
    /\ window_seconds = 1
    /\ cleanup_interval = 1
    /\ request_log = EmptyDict
    /\ last_cleanup = 0
    /\ now = 0
    /\ calls = [c \in Clients |-> <<>>]
    /\ last_remaining = {}
    /\ mw_requests = 0
    /\ mw_pending = {}
    /\ mw_responses = {}
    /\ rt_pc = "idle"
    /\ rt_method = "None"
    /\ attempt = 0
    /\ current_delay = 0
    /\ last_exception = "None"
    /\ rt_attempts = <<>>
    /\ rt_sleeps = <<>>
    /\ rt_requests = 0
    /\ enable_ml = TRUE
    /\ enable_rag = FALSE
    /\ thehive_threshold = "high"
    /\ subscribers = <<"async">>
    /\ collab = [ml |-> {}, triage |-> {"low", "fail"}, rag |-> {}, thehive |-> {}]
    /\ \E n \in 1..MaxEnqueued :
          alerts \in [1..n -> {a \in AlertShapes : ~a.has_features}]
    /\ runs = [i \in DOMAIN alerts |-> NewRun]
    /\ metrics = NewMetrics
    /\ sem = [value |-> SemWidth, waiters |-> <<>>]
    /\ events = {}
    /\ batch = [pc |-> "none", results |-> <<>>]

PMNext ==
    \/ PmStart
    \/ PmEnqueue
    \/ \E k \in DOMAIN pm_workers : WorkerDequeue(k)
    \/ \E i \in DOMAIN runs : TriageReply(i)
    \/ \E i \in DOMAIN runs : PublishDone(i)
    \/ PmStop
    \/ \E k \in DOMAIN pm_workers : WorkerExit(k)
    \/ PmStopReturn

SpecPM == PMInit /\ [][PMNext]_vars

\* The event loop runs a worker that can take an alert, and the awaited
\* collaborator and subscriber calls end (the clients' timeouts bound them).
SpecPMLive ==
    /\ PMInit
    /\ [][PMNext]_vars
    /\ WF_vars(\E k \in DOMAIN pm_workers : WorkerDequeue(k))
    /\ WF_vars(\E i \in DOMAIN runs : TriageReply(i))
    /\ WF_vars(\E i \in DOMAIN runs : PublishDone(i))

====
